---- MODULE Spec2Model ----
(***************************************************************************)
(* Market Performance Simulator (stuckonstandby/blank-app).                *)
(*                                                                         *)
(* A Streamlit session: the user is on one page, edits its widgets (every  *)
(* edit reruns the page script, which stops at the Submit check) and       *)
(* presses Submit (the script runs to its end and shows a cost report or   *)
(* an error).  One action per widget edit and one per page script.         *)
(*                                                                         *)
(* Numbers.  The scripts compute in floating point; the model computes     *)
(* exactly, on integers:                                                   *)
(*   - a rate of the CSV and a fee are integers (in half units: 6 is 3.00, *)
(*     9 is 4.50, 1 is 0.50);                                              *)
(*   - a monthly mean rate and a mean fee are numerators over RateDen;     *)
(*   - volumes are multiples of 1000 and hedge percentages multiples of    *)
(*     10, so usage * pct / 100 and cost / 100 are exact integer divisions;*)
(*   - a cost is usage * rate, hence counted in 1/(2 * RateDen) dollars.   *)
(***************************************************************************)
EXTENDS Integers, Sequences, FiniteSets, TLC

\* -------------------------------------------------------------------------
\* Bounds of the model

\* most rows of a generated rate file (AggTables), hence most observations
\* averaged into one monthly rate
MaxRows == 3
\* most sites of one client, province and commodity averaged into one fee
MaxSites == 2
\* longest hedge term (months) the hedge widgets offer in the model
MaxTerm == 3

\* -------------------------------------------------------------------------
\* Arithmetic helpers

RECURSIVE Fact(_)
Fact(n) == IF n <= 1 THEN 1 ELSE n * Fact(n - 1)

\* common denominator of every mean the scripts take
RateDen == Fact(MaxRows) * Fact(MaxSites)

RECURSIVE SumSeq(_)
SumSeq(s) == IF s = <<>> THEN 0 ELSE Head(s) + SumSeq(Tail(s))

\* pandas .mean() of a non-empty column, as a numerator over RateDen
Mean(s) == (SumSeq(s) * RateDen) \div Len(s)

RECURSIVE MapField(_, _)
\* the column `col` of a table (a sequence of records)
MapField(rows, col) ==
    IF rows = <<>> THEN <<>> ELSE <<Head(rows)[col]>> \o MapField(Tail(rows), col)

\* -------------------------------------------------------------------------
\* Dates: pandas Timestamps at midnight, as records [y, m, d]

Date(y, m, d) == [y |-> y, m |-> m, d |-> d]

NoDate == [y |-> 0, m |-> 0, d |-> 0]

\* number of the calendar month of a date, counted from year 0
MonthIndex(dt) == dt.y * 12 + (dt.m - 1)

DateKey(dt) == MonthIndex(dt) * 32 + dt.d

DateLE(a, b) == DateKey(a) <= DateKey(b)

DateLT(a, b) == DateKey(a) < DateKey(b)

IsLeap(y) == (y % 4 = 0 /\ y % 100 # 0) \/ (y % 400 = 0)

DaysInMonth(y, m) ==
    IF m = 2 THEN (IF IsLeap(y) THEN 29 ELSE 28)
    ELSE IF m \in {4, 6, 9, 11} THEN 30 ELSE 31

\* Period("M").start_time : the first calendar day of the month of index mi
MonthStart(mi) == Date(mi \div 12, (mi % 12) + 1, 1)

\* months counted from the first day of the month of dt, to show what the
\* day of the month decides
AddMonthsToMonthStart(dt, n) == MonthStart(MonthIndex(dt) + n)

\* ts + pd.DateOffset(months = n): same day of month, clamped to the month's end
AddMonths(dt, n) ==
    LET mi == MonthIndex(dt) + n
        y  == mi \div 12
        m  == (mi % 12) + 1
        dm == DaysInMonth(y, m)
    IN  Date(y, m, IF dt.d > dm THEN dm ELSE dt.d)

\* -------------------------------------------------------------------------
\* Rate tables: the rows of a historical_data_*.csv

RateColumns ==
    {"regulated_rate", "local_utility_rate_egd", "local_utility_rate_usouth",
     "utility_rate"}

\* one observation; the four utility-side columns hold different values, so
\* that the column a page selects shows in its result
Row(dt, w, u) ==
    [date |-> dt, wholesale_rate |-> w, regulated_rate |-> u,
     local_utility_rate_egd |-> u + 2, local_utility_rate_usouth |-> u + 4,
     utility_rate |-> u + 6]

\* mask = (df["date"] >= start_ts) & (df["date"] <= end_ts); df.loc[mask]
InWindow(r, start_ts, end_ts) == DateLE(start_ts, r.date) /\ DateLE(r.date, end_ts)

\* the filter with the end date left out, to show what the date range decides
df_filtered_open_end(df, start_ts, end_ts) ==
    SelectSeq(df, LAMBDA r : DateLE(start_ts, r.date) /\ DateLT(r.date, end_ts))

\* the filter widened to the whole months of the two dates, to show what
\* the days of the range decide
df_filtered_whole_months(df, start_ts, end_ts) ==
    SelectSeq(df, LAMBDA r : /\ MonthIndex(start_ts) <= MonthIndex(r.date)
                             /\ MonthIndex(r.date) <= MonthIndex(end_ts))

df_filtered(df, start_ts, end_ts) ==
    SelectSeq(df, LAMBDA r : InWindow(r, start_ts, end_ts))

\* df_filtered["date"].dt.to_period("M") : the groupby keys
year_month(rows) == {MonthIndex(rows[i].date) : i \in DOMAIN rows}

RECURSIVE SortDesc(_)
\* the keys in descending order, to show what the order of the table decides
SortDesc(S) ==
    IF S = {} THEN <<>>
    ELSE LET hi == CHOOSE x \in S : \A z \in S : z <= x
         IN  <<hi>> \o SortDesc(S \ {hi})

RECURSIVE SortAsc(_)
\* groupby sorts its keys; sort_values("year_month") keeps them ascending
SortAsc(S) ==
    IF S = {} THEN <<>>
    ELSE LET lo == CHOOSE x \in S : \A z \in S : x <= z
         IN  <<lo>> \o SortAsc(S \ {lo})

GroupOf(rows, k) == SelectSeq(rows, LAMBDA r : MonthIndex(r.date) = k)

\* .groupby("year_month", as_index=False).agg({... : "mean"}), then the key
\* replaced by x.start_time, sort_values and reset_index
monthly_rates(rows, col) ==
    LET keys == SortAsc(year_month(rows))
    IN  [i \in 1..Len(keys) |->
            [year_month |-> MonthStart(keys[i]),
             wholesale_rate |-> Mean(MapField(GroupOf(rows, keys[i]), "wholesale_rate")),
             utility_selected |-> Mean(MapField(GroupOf(rows, keys[i]), col))]]

\* -------------------------------------------------------------------------
\* Hedge window

\* a hedge end of one month at least, to show what a term of 0 decides
hedge_end_ts_one_month_at_least(hedge_start_ts, hedge_term_months) ==
    AddMonths(hedge_start_ts, IF hedge_term_months = 0 THEN 1 ELSE hedge_term_months)

\* hedge_start_ts + pd.DateOffset(months=int(hedge_term_months))
hedge_end_ts(hedge_start_ts, hedge_term_months) ==
    AddMonths(hedge_start_ts, hedge_term_months)

\* the hedge window with its end included, to show what the half-open
\* comparison decides
in_hedge_window_closed(w, month_dt) ==
    /\ w.use_hedge
    /\ DateLE(w.hedge_start_date_input, month_dt)
    /\ DateLE(month_dt, hedge_end_ts(w.hedge_start_date_input, w.hedge_term_months))

\* use_hedge and hedge_start_ts and (hedge_start_ts <= month_dt < hedge_end_ts)
in_hedge_window(w, month_dt) ==
    /\ w.use_hedge
    /\ w.hedge_start_date_input # NoDate
    /\ DateLE(w.hedge_start_date_input, month_dt)
    /\ DateLT(month_dt, hedge_end_ts(w.hedge_start_date_input, w.hedge_term_months))

\* -------------------------------------------------------------------------
\* Cost of one monthly row.  usage is a volume, rates are numerators over
\* RateDen, pct is the hedged percentage.

\* a hedged volume that is a block of 100 per percent, whatever the usage
hedged_volume_block(usage, pct) == 100 * pct

\* hedged_volume = month_consumption * (hedge_portion_percent / 100.0)
hedged_volume(usage, pct) == (usage * pct) \div 100

\* floating_volume = month_consumption - hedged_volume
floating_volume(usage, pct) == usage - hedged_volume(usage, pct)

\* current_client.cost_in_cad: AB gas is $/GJ, AB electricity and ON gas are
\* cents per unit; -1 stands for st.error + st.stop (no rule)
cost_in_cad(usage_value, rate_value, province, commodity) ==
    IF province = "Alberta" /\ commodity = "gas" THEN usage_value * rate_value
    ELSE IF province = "Alberta" /\ commodity = "electricity"
         THEN (usage_value * rate_value) \div 100
    ELSE IF province = "Ontario" /\ commodity = "gas"
         THEN (usage_value * rate_value) \div 100
    ELSE -1

\* new_business_qc_gas: (usage_val * rate) / 100.0
cost_cents_to_dollars(usage_value, rate_value) == (usage_value * rate_value) \div 100

\* hedged portion priced at the fixed rate alone (current_client,
\* canadian_new_business, analysis, new_business_qc_gas)
hedged_rate_all_in(hedge_fixed_rate, admin_fee) == hedge_fixed_rate

\* hedged portion priced at hedge_fixed_rate + admin_fee (streamlit_app,
\* new_business_ab_gas, new_business_on_gas)
hedged_rate_plus_fee(hedge_fixed_rate, admin_fee) == hedge_fixed_rate + admin_fee

\* raw product usage * rate, in the unit of the rate column (streamlit_app,
\* new_business_ab_gas, new_business_on_gas, canadian_new_business, analysis)
cost_raw(usage_value, rate_value) == usage_value * rate_value

\* the unhedged volume at the wholesale rate alone, to show what the fee decides
floating_rate_without_fee(whl_rate, admin_fee) == whl_rate

\* the rate of the unhedged volume: whl_rate + admin_fee
floating_rate(whl_rate, admin_fee) == whl_rate + admin_fee

\* how a page costs a row: cost is "raw" (usage * rate), "in_cad"
\* (cost_in_cad of the province and commodity) or "cents_to_dollars"
\* (new_business_qc_gas), hedge is "all_in" or "plus_fee"
CostRule(cost, hedge, province, commodity) ==
    [cost |-> cost, hedge |-> hedge, province |-> province, commodity |-> commodity]

\* the product usage * rate as the page of the rule computes it
cost_of(rule, usage_value, rate_value) ==
    IF rule.cost = "in_cad"
    THEN cost_in_cad(usage_value, rate_value, rule.province, rule.commodity)
    ELSE IF rule.cost = "cents_to_dollars"
    THEN cost_cents_to_dollars(usage_value, rate_value)
    ELSE cost_raw(usage_value, rate_value)

\* the rate the page of the rule charges on the hedged volume
hedged_rate(rule, hedge_fixed_rate, admin_fee) ==
    IF rule.hedge = "all_in"
    THEN hedged_rate_all_in(hedge_fixed_rate, admin_fee)
    ELSE hedged_rate_plus_fee(hedge_fixed_rate, admin_fee)

\* the loop with the consumption looked up by the position of the row, to
\* show what the month number decides
cost_loop_by_position(mr, w, consumption, fee, rule) ==
    [i \in DOMAIN mr |->
        LET month_dt == mr[i].year_month
            usage    == consumption[i]
            hedged   == in_hedge_window(w, month_dt)
            pct      == w.hedge_portion_percent
            fixed    == w.hedge_fixed_rate * RateDen
            floating == floating_rate(mr[i].wholesale_rate, fee)
        IN  [hedged |-> hedged,
             cost_utility |-> cost_of(rule, usage, mr[i].utility_selected),
             cost_client |->
                IF hedged
                THEN cost_of(rule, hedged_volume(usage, pct), hedged_rate(rule, fixed, fee))
                     + cost_of(rule, floating_volume(usage, pct), floating)
                ELSE cost_of(rule, usage, floating)]]

\* the body of the loop "for _, row in monthly_rates.iterrows()"
cost_loop(mr, w, consumption, fee, rule) ==
    [i \in DOMAIN mr |->
        LET month_dt == mr[i].year_month
            mnum     == month_dt.m
            usage    == consumption[mnum]
            hedged   == in_hedge_window(w, month_dt)
            pct      == w.hedge_portion_percent
            fixed    == w.hedge_fixed_rate * RateDen
            floating == floating_rate(mr[i].wholesale_rate, fee)
        IN  [hedged |-> hedged,
             cost_utility |-> cost_of(rule, usage, mr[i].utility_selected),
             cost_client |->
                IF hedged
                THEN cost_of(rule, hedged_volume(usage, pct), hedged_rate(rule, fixed, fee))
                     + cost_of(rule, floating_volume(usage, pct), floating)
                ELSE cost_of(rule, usage, floating)]]

\* -------------------------------------------------------------------------
\* Files

\* get_rates_csv of current_client: no rule for Ontario electricity
get_rates_csv_current_client(province, commodity) ==
    IF province = "Alberta" /\ commodity = "gas" THEN "historical_data_AB_gas.csv"
    ELSE IF province = "Alberta" /\ commodity = "electricity"
         THEN "historical_data_AB_ele.csv"
    ELSE IF province = "Ontario" /\ commodity = "gas" THEN "historical_data_ON_gas.csv"
    ELSE "none"

\* get_rates_csv of canadian_new_business and of analysis
get_rates_csv(province, commodity) ==
    IF province = "Alberta" /\ commodity = "gas" THEN "historical_data_AB_gas.csv"
    ELSE IF province = "Alberta" /\ commodity = "electricity"
         THEN "historical_data_AB_ele.csv"
    ELSE IF province = "Ontario" /\ commodity = "gas" THEN "historical_data_ON_gas.csv"
    ELSE IF province = "Ontario" /\ commodity = "electricity"
         THEN "historical_data_ON_ele.csv"
    ELSE "none"

\* the rate file each single-market page reads
csv_path_streamlit_app == "/workspaces/blank-app/historical_data.csv"

csv_path_ab_gas == "data/historical_data_AB_ele.csv"

csv_path_on_gas == "market-data/historical_data_ON_gas.csv"

csv_path_qc_gas == "/workspaces/blank-app/market-data/historical_data_AB_ele.csv"

csv_path_client == "client_data_by_site.csv"

\* analysis.get_data_path
get_data_path(filename) == "pages/data/" \o filename

\* canadian_new_business: os.path.join(data_dir, rates_csv)
data_dir_path(filename) == "data/" \o filename

\* -------------------------------------------------------------------------
\* State

VARIABLES
    page,       \* the page script the session shows
    w,          \* the values of the page's widgets
    session,    \* st.session_state
    rates,      \* the rows every rate file that exists holds
    files,      \* the files that are absent, those lacking a required column,
                \* and the client files that hold a "date" column
    client_df,  \* the rows of client_data_by_site.csv
    run,        \* what the last run of the page script produced
    uploads     \* the runs of data_uploader under way, one for each of its
                \* sessions

vars == <<page, w, session, rates, files, client_df, run, uploads>>

Pages ==
    {"streamlit_app", "new_business_ab_gas", "new_business_on_gas",
     "new_business_qc_gas", "current_client", "canadian_new_business", "analysis"}

ManualPages == Pages \ {"current_client", "analysis"}

ZonePages == {"streamlit_app", "new_business_on_gas"}

ClientPages == {"current_client", "analysis"}

file_absent(path) == path \in files.absent

file_lacks_columns(path) == path \in files.bad_columns

\* pd.read_csv(filepath, parse_dates=["date"]) raises on a file with no
\* "date" column; the rate files all have one, a client file need not
file_lacks_date(path) == path \notin files.dated

\* -------------------------------------------------------------------------
\* Consumption profiles and client files

ZeroProfile == [m \in 1..12 |-> 0]

FlatProfile == [m \in 1..12 |-> 1000]

ShapedProfile == [m \in 1..12 |-> 1000 * (1 + (m % 3))]

\* The contract_start_date column is read by pd.read_csv with no parse_dates:
\* its cells stay strings, here sequences of character codes
\* ("-" is 45, "/" is 47, "0".."9" are 48..57).
Digit(n) == 48 + n

Dec2(n) == <<Digit(n \div 10), Digit(n % 10)>>

Dec(n) == IF n < 10 THEN <<Digit(n)>> ELSE Dec2(n)

Dec4(n) == <<Digit(n \div 1000), Digit((n \div 100) % 10), Digit((n \div 10) % 10),
            Digit(n % 10)>>

\* a cell written as YYYY-MM-DD
IsoText(dt) == Dec4(dt.y) \o <<45>> \o Dec2(dt.m) \o <<45>> \o Dec2(dt.d)

\* a cell written as M/D/YYYY
UsText(dt) == Dec(dt.m) \o <<47>> \o Dec(dt.d) \o <<47>> \o Dec4(dt.y)

IsDigit(c) == c \in 48..57

RECURSIVE NumberOf(_)
NumberOf(digits) ==
    IF digits = <<>> THEN 0
    ELSE 10 * NumberOf(SubSeq(digits, 1, Len(digits) - 1)) + (digits[Len(digits)] - 48)

RECURSIVE Fields(_)
\* the runs of digits of a text, in order
Fields(text) ==
    IF text = <<>> THEN <<>>
    ELSE IF ~IsDigit(Head(text)) THEN Fields(Tail(text))
    ELSE LET stops == {i \in 1..Len(text) : ~IsDigit(text[i])}
             n == IF stops = {} THEN Len(text)
                  ELSE (CHOOSE i \in stops : \A k \in stops : i <= k) - 1
         IN  <<SubSeq(text, 1, n)>> \o Fields(SubSeq(text, n + 1, Len(text)))

\* pd.to_datetime of a cell: year first when the text starts with four
\* digits, month first otherwise (dayfirst=False)
to_datetime(text) ==
    LET f == Fields(text)
    IN  IF Len(f[1]) = 4
        THEN Date(NumberOf(f[1]), NumberOf(f[2]), NumberOf(f[3]))
        ELSE Date(NumberOf(f[3]), NumberOf(f[1]), NumberOf(f[2]))

RECURSIVE TextLE(_, _)
\* a <= b for Python strings: by character code, a prefix first
TextLE(a, b) ==
    IF a = <<>> THEN TRUE
    ELSE IF b = <<>> THEN FALSE
    ELSE IF Head(a) # Head(b) THEN Head(a) < Head(b)
    ELSE TextLE(Tail(a), Tail(b))

Site(client, sid, prov, com, start, fee, cons) ==
    [client_name |-> client, site_ID |-> sid, province |-> prov, commodity |-> com,
     contract_start_date |-> start, client_admin_fee |-> fee, consumption |-> cons]

\* final_subset: the rows of the chosen client, province and commodity
final_subset(df, r) ==
    SelectSeq(df, LAMBDA s : /\ s.client_name = df[r].client_name
                             /\ s.province = df[r].province
                             /\ s.commodity = df[r].commodity)

RECURSIVE MinDate(_)
\* min_date = df["date"].min()
MinDate(dates) ==
    IF Len(dates) = 1 THEN dates[1]
    ELSE LET rest == MinDate(Tail(dates))
         IN  IF DateLE(Head(dates), rest) THEN Head(dates) ELSE rest

RECURSIVE earliest_start(_)
\* earliest_start = final_subset["contract_start_date"].min(), a minimum of strings
earliest_start(texts) ==
    IF Len(texts) = 1 THEN texts[1]
    ELSE LET rest == earliest_start(Tail(texts))
         IN  IF TextLE(Head(texts), rest) THEN Head(texts) ELSE rest

\* the sums keyed by the months 0..11, to show what the keys 1..12 decide
usage_sums_from_zero(subset) ==
    [m \in 0..11 |-> SumSeq([i \in DOMAIN subset |-> subset[i].consumption[m + 1]])]

\* the columns of the first matching record alone, to show what the sum decides
usage_of_first_record(subset) == subset[1].consumption

\* usage_sums = final_subset[month_cols].sum(); consumption[i] = float(usage_sums[...])
usage_sums(subset) ==
    [m \in 1..12 |-> SumSeq([i \in DOMAIN subset |-> subset[i].consumption[m]])]

\* the profile, contract start and admin fee (over RateDen) the page works with
portfolio(df, r, analysis_mode) ==
    IF analysis_mode = "Aggregate All Sites"
    THEN LET fs == final_subset(df, r)
         IN  [consumption |-> usage_sums(fs),
              final_contract_start |-> earliest_start(MapField(fs, "contract_start_date")),
              final_admin_fee |-> Mean(MapField(fs, "client_admin_fee"))]
    ELSE LET fs == final_subset(df, r)
             site_row == SelectSeq(fs, LAMBDA s : s.site_ID = df[r].site_ID)[1]
         IN  [consumption |-> site_row.consumption,
              final_contract_start |-> site_row.contract_start_date,
              final_admin_fee |-> site_row.client_admin_fee * RateDen]

\* -------------------------------------------------------------------------
\* The result of one run of a page script

\* a run that st.stop()s (or raises) before the cost report
Stopped(outcome) ==
    [outcome |-> outcome, monthly_rates |-> <<>>, hedged |-> <<>>,
     monthly_cost_utility |-> <<>>, monthly_cost_client |-> <<>>,
     rep_utility |-> <<>>, rep_client |-> <<>>,
     total_utility |-> 0, total_client |-> 0, diff |-> 0, verdict |-> "none",
     redistribution |-> "none", redistributed_cost_client |-> <<>>,
     redistributed_total_client |-> 0,
     utility_column |-> "none", local_utility_choice |-> "none",
     zone_input |-> "none", province |-> "none", commodity |-> "none",
     consumption |-> ZeroProfile, admin_fee |-> 0]

\* the messages of the two signs exchanged, to show what the branches decide
verdict_of_client_minus_utility(diff_val) ==
    IF diff_val < 0 THEN "saved" ELSE IF diff_val > 0 THEN "spent more"
    ELSE "no difference"

\* st.success / st.error / st.info on the difference of the totals
verdict_of(diff_val) ==
    IF diff_val > 0 THEN "saved" ELSE IF diff_val < 0 THEN "spent more"
    ELSE "no difference"

\* the cost report: the metrics, the difference and the monthly breakdown.
\* rows is the result of cost_loop; rep and tot are the figures shown in CAD.
Report(mr, rows, rep_utility, rep_client, total_utility, total_client, sel) ==
    [outcome |-> "report", monthly_rates |-> mr,
     hedged |-> [i \in DOMAIN rows |-> rows[i].hedged],
     monthly_cost_utility |-> [i \in DOMAIN rows |-> rows[i].cost_utility],
     monthly_cost_client |-> [i \in DOMAIN rows |-> rows[i].cost_client],
     rep_utility |-> rep_utility, rep_client |-> rep_client,
     total_utility |-> total_utility, total_client |-> total_client,
     diff |-> total_utility - total_client,
     verdict |-> verdict_of(total_utility - total_client),
     redistribution |-> "none", redistributed_cost_client |-> <<>>,
     redistributed_total_client |-> 0,
     utility_column |-> sel.utility_column,
     local_utility_choice |-> sel.local_utility_choice,
     zone_input |-> sel.zone_input, province |-> sel.province,
     commodity |-> sel.commodity, consumption |-> sel.consumption,
     admin_fee |-> sel.admin_fee]

Selection(col, choice, zone_input, province, commodity, consumption, fee) ==
    [utility_column |-> col, local_utility_choice |-> choice,
     zone_input |-> zone_input, province |-> province, commodity |-> commodity,
     consumption |-> consumption, admin_fee |-> fee]

\* the report of the pages that show the sums of the monthly costs as they are
report_plain(mr, rows, sel) ==
    LET cu == [i \in DOMAIN rows |-> rows[i].cost_utility]
        cc == [i \in DOMAIN rows |-> rows[i].cost_client]
    IN  Report(mr, rows, cu, cc, SumSeq(cu), SumSeq(cc), sel)

\* the total left in cents, to show what its division decides
utility_total_in_cents(total_utility) == total_utility

\* utility_dollars = total_utility / 100
utility_dollars(total_utility) == total_utility \div 100

\* client_dollars = total_client / 100
client_dollars(total_client) == total_client \div 100

\* cost_util = monthly_cost_utility[idx] / 100
display_cost_util(cost) == cost \div 100

\* cost_client = monthly_cost_client[idx] / 100
display_cost_client(cost) == cost \div 100

\* the report of streamlit_app and new_business_on_gas: costs summed in cents,
\* the totals and the monthly breakdown divided by 100
report_cents(mr, rows, sel) ==
    LET cu == [i \in DOMAIN rows |-> rows[i].cost_utility]
        cc == [i \in DOMAIN rows |-> rows[i].cost_client]
    IN  Report(mr, rows,
               [i \in DOMAIN rows |-> display_cost_util(cu[i])],
               [i \in DOMAIN rows |-> display_cost_client(cc[i])],
               utility_dollars(SumSeq(cu)), client_dollars(SumSeq(cc)), sel)

\* -------------------------------------------------------------------------
\* The page scripts

\* a load that finds every file and every column, to show what the checks decide
load_outcome_unchecked(path) == "ok"

\* pd.read_csv and the required-columns check of one rate file
load_outcome(path) ==
    IF file_absent(path) THEN "missing_file"
    ELSE IF file_lacks_columns(path) THEN "missing_columns"
    ELSE "ok"

\* analysis.load_csv of the client file: os.path.exists, then read_csv with
\* parse_dates=["date"] inside "except Exception", then the required columns
load_csv_client(path) ==
    IF file_absent(path) THEN "missing_file"
    ELSE IF file_lacks_date(path) THEN "read_error"
    ELSE IF file_lacks_columns(path) THEN "missing_columns"
    ELSE "ok"

\* st.secrets: current_client compares with the entry "password", analysis
\* with the entry "PASSWORD"
secrets == [password |-> "alpha", PASSWORD |-> "bravo"]

secret_of_page(p) == IF p = "analysis" THEN secrets.PASSWORD ELSE secrets.password

\* the texts typed in the Password box
PasswordTexts == {"alpha", "bravo"}

\* password_entered(): hmac.compare_digest of the text of the box, which is
\* st.session_state["password"], with the secret of the page; on a match the
\* flag is set and the text deleted, otherwise the flag is False and the
\* text stays in the session state
password_entered(sess, text, p) ==
    IF text = secret_of_page(p)
    THEN [sess EXCEPT !.password_correct = "True", !.password = "absent"]
    ELSE [sess EXCEPT !.password_correct = "False", !.password = text]

\* the check that passes a session with no flag yet, to show what the
\* default of .get("password_correct", False) decides
check_password_open(sess) == sess.password_correct # "False"

\* check_password(): the page goes on only with password_correct = True
check_password(sess) == sess.password_correct = "True"

\* the part of a page script above "if not submitted: st.stop()"
pre_submit(p, wd, sess) ==
    IF p = "new_business_ab_gas" /\ load_outcome(csv_path_ab_gas) # "ok"
    THEN Stopped(load_outcome(csv_path_ab_gas))
    ELSE IF p = "new_business_qc_gas" /\ load_outcome(csv_path_qc_gas) # "ok"
    THEN Stopped(load_outcome(csv_path_qc_gas))
    ELSE IF p = "canadian_new_business"
            /\ load_outcome(data_dir_path(get_rates_csv(wd.province, wd.commodity))) # "ok"
    THEN Stopped(load_outcome(data_dir_path(get_rates_csv(wd.province, wd.commodity))))
    ELSE IF p \in ClientPages /\ ~check_password(sess)
    THEN Stopped("password")
    ELSE IF p = "current_client" /\ load_outcome(csv_path_client) # "ok"
    THEN Stopped(load_outcome(csv_path_client))
    ELSE IF p = "analysis" /\ load_csv_client(get_data_path(csv_path_client)) # "ok"
    THEN Stopped(load_csv_client(get_data_path(csv_path_client)))
    ELSE Stopped("idle")

\* the two zone columns exchanged, to show what the zone decides
zone_column_exchanged(zone) ==
    IF zone = "EGD" THEN "local_utility_rate_usouth" ELSE "local_utility_rate_egd"

\* if zone == "EGD Zone": local_utility_rate_egd, else local_utility_rate_usouth
zone_column(zone) ==
    IF zone = "EGD" THEN "local_utility_rate_egd" ELSE "local_utility_rate_usouth"

\* streamlit_app.main below the Submit check; new_business_on_gas.main is the
\* same code on another file
main_zone_page(path, wd) ==
    LET filtered == df_filtered(rates, wd.start_date_input, wd.end_date_input)
        col      == zone_column(wd.zone)
        mr       == monthly_rates(filtered, col)
        fee      == wd.admin_fee * RateDen
        rows     == cost_loop(mr, wd, wd.consumption, fee,
                              CostRule("raw", "plus_fee", "Ontario", "gas"))
    IN  IF load_outcome(path) # "ok" THEN Stopped(load_outcome(path))
        ELSE IF filtered = <<>> THEN Stopped("empty_range")
        ELSE report_cents(mr, rows,
                 Selection(col, wd.zone, wd.zone, "Ontario", "gas", wd.consumption, fee))

\* new_business_ab_gas.main below the Submit check
main_ab_gas(wd) ==
    LET filtered == df_filtered(rates, wd.start_date_input, wd.end_date_input)
        mr       == monthly_rates(filtered, "regulated_rate")
        fee      == wd.admin_fee * RateDen
        rows     == cost_loop(mr, wd, wd.consumption, fee,
                              CostRule("raw", "plus_fee", "Alberta", "gas"))
    IN  IF filtered = <<>> THEN Stopped("empty_range")
        ELSE report_plain(mr, rows,
                 Selection("regulated_rate", "none", "none", "Alberta", "gas",
                           wd.consumption, fee))

\* whether the name required_cols of line 195 is bound when the line runs:
\* main binds required_columns (line 40) and the module binds neither
required_cols_bound == FALSE

\* total_consumption / 12.0 in every month
equal_monthly_consumption(consumption) ==
    [m \in 1..12 |-> SumSeq(consumption) \div 12]

\* new_business_qc_gas.main below the Submit check: the file is read again,
\* the column validation reads required_cols (NameError when unbound), then
\* the date filter, the monthly means, the cost loop, the redistribution,
\* the report and the redistributed report.  With the redistribution ticked
\* and a total of 0 redistributed_df is never assigned: the test of line 346
\* raises after the metrics of the normal report.
main_qc_gas(wd) ==
    LET filtered == df_filtered(rates, wd.start_date_input, wd.end_date_input)
        mr       == monthly_rates(filtered, "utility_rate")
        fee      == wd.admin_fee * RateDen
        rule     == CostRule("cents_to_dollars", "all_in", "Quebec", "gas")
        rows     == cost_loop(mr, wd, wd.consumption, fee, rule)
        equal    == cost_loop(mr, wd, equal_monthly_consumption(wd.consumption), fee, rule)
        normal   == report_plain(mr, rows,
                        Selection("utility_rate", "none", "none", "Quebec", "gas",
                                  wd.consumption, fee))
        rcc      == [i \in DOMAIN equal |-> equal[i].cost_client]
    IN  IF load_outcome(csv_path_qc_gas) = "missing_file" THEN Stopped("missing_file")
        ELSE IF ~required_cols_bound THEN Stopped("exception")
        ELSE IF load_outcome(csv_path_qc_gas) # "ok"
        THEN Stopped(load_outcome(csv_path_qc_gas))
        ELSE IF filtered = <<>> THEN Stopped("empty_range")
        ELSE IF ~wd.redistribute_option THEN normal
        ELSE IF SumSeq(wd.consumption) = 0
        THEN [normal EXCEPT !.outcome = "exception", !.redistribution = "warned"]
        ELSE [normal EXCEPT !.redistribution = "shown",
                            !.redistributed_cost_client = rcc,
                            !.redistributed_total_client = SumSeq(rcc)]

\* current_client.main below the Submit check
main_current_client(wd) ==
    LET site     == client_df[wd.scope_row]
        pf       == portfolio(client_df, wd.scope_row, wd.analysis_mode)
        csv      == get_rates_csv_current_client(site.province, site.commodity)
        filtered == df_filtered(rates, wd.start_date_input, wd.end_date_input)
        col      == IF site.province = "Alberta" THEN "regulated_rate"
                    ELSE IF wd.zone = "EGD" THEN "local_utility_rate_egd"
                    ELSE "local_utility_rate_usouth"
        mr       == monthly_rates(filtered, col)
        rows     == cost_loop(mr, wd, pf.consumption, pf.final_admin_fee,
                              CostRule("in_cad", "all_in", site.province, site.commodity))
    IN  IF csv = "none" THEN Stopped("unsupported")
        ELSE IF load_outcome(csv) # "ok" THEN Stopped(load_outcome(csv))
        ELSE IF filtered = <<>> THEN Stopped("empty_range")
        ELSE IF site.province # "Alberta" /\ wd.zone = "none" THEN Stopped("no_zone")
        ELSE report_plain(mr, rows,
                 Selection(col, wd.zone, wd.zone, site.province, site.commodity,
                           pf.consumption, pf.final_admin_fee))

\* canadian_new_business: st.session_state['local_utility_choice'] after the
\* run; radio is what the st.radio shown when the hedge is off returns
session_after_canadian(wd, radio) ==
    IF wd.province = "Alberta" THEN session
    ELSE IF ~wd.use_hedge THEN [session EXCEPT !.local_utility_choice = radio]
    ELSE IF session.local_utility_choice = "unset"
         THEN [session EXCEPT !.local_utility_choice = "EGD"]
    ELSE session

\* canadian_new_business.main below the Submit check
main_canadian_new_business(wd, radio) ==
    LET filtered == df_filtered(rates, wd.start_date_input, wd.end_date_input)
        choice   == session_after_canadian(wd, radio).local_utility_choice
        col      == IF wd.province = "Alberta" THEN "regulated_rate"
                    ELSE IF choice = "EGD" THEN "local_utility_rate_egd"
                    ELSE "local_utility_rate_usouth"
        mr       == monthly_rates(filtered, col)
        fee      == wd.admin_fee * RateDen
        rows     == cost_loop(mr, wd, wd.consumption, fee,
                              CostRule("raw", "all_in", wd.province, wd.commodity))
    IN  IF filtered = <<>> THEN Stopped("empty_range")
        ELSE report_plain(mr, rows,
                 Selection(col,
                           IF wd.province = "Alberta" THEN "none" ELSE choice,
                           IF wd.province = "Alberta" \/ wd.use_hedge THEN "none" ELSE radio,
                           wd.province, wd.commodity, wd.consumption, fee))

\* analysis.main, "Current Client", below the Submit check; radio is what the
\* st.radio of step 11 returns
main_analysis(wd, radio) ==
    LET site     == client_df[wd.scope_row]
        pf       == portfolio(client_df, wd.scope_row, wd.analysis_mode)
        csv      == get_rates_csv(site.province, site.commodity)
        filtered == df_filtered(rates, wd.start_date_input, wd.end_date_input)
        col      == IF site.province = "Alberta" THEN "regulated_rate"
                    ELSE IF radio = "EGD" THEN "local_utility_rate_egd"
                    ELSE "local_utility_rate_usouth"
        mr       == monthly_rates(filtered, col)
        rows     == cost_loop(mr, wd, pf.consumption, pf.final_admin_fee,
                              CostRule("raw", "all_in", site.province, site.commodity))
        zone     == IF site.province = "Alberta" THEN "none" ELSE radio
    IN  IF csv = "none" THEN Stopped("unsupported")
        ELSE IF load_outcome(get_data_path(csv)) # "ok"
        THEN Stopped(load_outcome(get_data_path(csv)))
        ELSE IF filtered = <<>> THEN Stopped("empty_range")
        ELSE report_plain(mr, rows,
                 Selection(col, zone, zone, site.province, site.commodity,
                           pf.consumption, pf.final_admin_fee))

\* -------------------------------------------------------------------------
\* Widgets

RECURSIVE MaxDate(_)
MaxDate(dates) ==
    IF Len(dates) = 1 THEN dates[1]
    ELSE LET rest == MaxDate(Tail(dates))
         IN  IF DateLE(rest, Head(dates)) THEN Head(dates) ELSE rest

\* the date range a page shows before the user edits it: the first and last
\* date of the rate file (new_business_ab_gas, new_business_qc_gas,
\* canadian_new_business), 2021-01-01 to 2021-12-31 (streamlit_app,
\* new_business_on_gas), the contract start to 2023-12-31 (current_client, analysis)
default_range(p, contract_start) ==
    IF p \in ZonePages THEN <<Date(2021, 1, 1), Date(2021, 12, 31)>>
    ELSE IF p \in ClientPages THEN <<contract_start, Date(2023, 12, 31)>>
    ELSE <<MinDate(MapField(rates, "date")), MaxDate(MapField(rates, "date"))>>

\* the selectbox "Select Ontario Gas Utility" of current_client, shown for
\* Ontario gas only
default_zone(p, r) ==
    IF p \in ZonePages THEN "EGD"
    ELSE IF p = "current_client" /\ client_df[r].province = "Ontario"
            /\ client_df[r].commodity = "gas" THEN "EGD"
    ELSE "none"

\* the widgets of page p as the script first draws them; r and mode are the
\* client scope of the multi-site pages
Defaults(p, r, mode) ==
    LET start == IF p \in ClientPages
                 THEN to_datetime(portfolio(client_df, r, mode).final_contract_start)
                 ELSE NoDate
        range == default_range(p, start)
    IN  [consumption |-> ZeroProfile,
         start_date_input |-> range[1], end_date_input |-> range[2],
         admin_fee |-> 0,
         use_hedge |-> FALSE, hedge_portion_percent |-> 0,
         hedge_start_date_input |-> NoDate, hedge_term_months |-> 0,
         hedge_fixed_rate |-> 0,
         zone |-> default_zone(p, r),
         province |-> IF p = "canadian_new_business" THEN "Alberta" ELSE "none",
         commodity |-> IF p = "canadian_new_business" THEN "gas" ELSE "none",
         scope_row |-> IF p \in ClientPages THEN r ELSE 0,
         analysis_mode |-> IF p \in ClientPages THEN mode ELSE "none",
         redistribute_option |-> (p = "new_business_qc_gas")]

\* min_value of "Hedge Term (months)"
min_hedge_term(p) ==
    IF p \in {"canadian_new_business", "new_business_qc_gas", "analysis"} THEN 1 ELSE 0

\* lower bound of the Start Date widget of the multi-site pages
contract_start_ts(p, wd) ==
    IF p \in ClientPages
    THEN to_datetime(portfolio(client_df, wd.scope_row, wd.analysis_mode)
                         .final_contract_start)
    ELSE NoDate

\* -------------------------------------------------------------------------
\* Actions.  D is the set of values the user enters.

\* the script of the page gets as far as its Submit button, so the widgets
\* above the button are on the screen
form_drawn == pre_submit(page, w, session).outcome = "idle"

\* the user opens another page of the app
Navigate(D) ==
    \E p \in D.pages :
        /\ p # page
        /\ page' = p
        /\ w' = Defaults(p, 1, "Aggregate All Sites")
        /\ run' = pre_submit(p, w', session)
        /\ UNCHANGED <<session, rates, files, client_df, uploads>>

\* the twelve number_inputs of the manual pages
SetConsumption(D) ==
    /\ page \in ManualPages
    /\ form_drawn
    /\ \E c \in D.profiles :
        /\ c # w.consumption
        /\ w' = [w EXCEPT !.consumption = c]
    /\ run' = pre_submit(page, w', session)
    /\ UNCHANGED <<page, session, rates, files, client_df, uploads>>

\* the Admin Fee number_input of the manual pages
SetAdminFee(D) ==
    /\ page \in ManualPages
    /\ form_drawn
    /\ \E f \in D.fees :
        /\ f # w.admin_fee
        /\ w' = [w EXCEPT !.admin_fee = f]
    /\ run' = pre_submit(page, w', session)
    /\ UNCHANGED <<page, session, rates, files, client_df, uploads>>

\* min_value and max_value of the Start Date and End Date widgets: the first
\* and last date of the rate file (new_business_ab_gas, canadian_new_business;
\* new_business_qc_gas, whose End Date starts at the Start Date), the contract
\* start (Start Date of current_client, both dates of analysis), none
\* (streamlit_app, new_business_on_gas)
date_widgets_allow(p, wd, range) ==
    LET min_date == MinDate(MapField(rates, "date"))
        max_date == MaxDate(MapField(rates, "date"))
        within(dt) == DateLE(min_date, dt) /\ DateLE(dt, max_date)
    IN  IF p \in {"new_business_ab_gas", "canadian_new_business"}
        THEN within(range[1]) /\ within(range[2])
        ELSE IF p = "new_business_qc_gas"
        THEN within(range[1]) /\ DateLE(range[1], range[2]) /\ DateLE(range[2], max_date)
        ELSE IF p = "current_client" THEN DateLE(contract_start_ts(p, wd), range[1])
        ELSE IF p = "analysis"
        THEN /\ DateLE(contract_start_ts(p, wd), range[1])
             /\ DateLE(contract_start_ts(p, wd), range[2])
        ELSE TRUE

\* the Start Date and End Date widgets; with the hedge widgets shown, the
\* hedge start stays within the new range
SetDateRange(D) ==
    /\ form_drawn
    /\ \E range \in D.ranges :
        /\ <<w.start_date_input, w.end_date_input>> # range
        /\ date_widgets_allow(page, w, range)
        /\ w.use_hedge => /\ DateLE(range[1], w.hedge_start_date_input)
                          /\ DateLE(w.hedge_start_date_input, range[2])
        /\ w' = [w EXCEPT !.start_date_input = range[1], !.end_date_input = range[2]]
    /\ run' = pre_submit(page, w', session)
    /\ UNCHANGED <<page, session, rates, files, client_df, uploads>>

\* the checkbox "Include Volumetric Hedge?" ticked and the four hedge widgets
SetHedge(D) ==
    /\ form_drawn
    /\ \E pct \in D.pcts, hs \in D.hedge_starts,
          term \in min_hedge_term(page)..MaxTerm, rate \in D.hedge_rates :
        /\ DateLE(w.start_date_input, hs)
        /\ DateLE(hs, w.end_date_input)
        /\ w' = [w EXCEPT !.use_hedge = TRUE, !.hedge_portion_percent = pct,
                          !.hedge_start_date_input = hs, !.hedge_term_months = term,
                          !.hedge_fixed_rate = rate]
        /\ w' # w
    /\ run' = pre_submit(page, w', session)
    /\ UNCHANGED <<page, session, rates, files, client_df, uploads>>

\* the checkbox unticked: the script keeps its defaults for the hedge
ClearHedge ==
    /\ form_drawn
    /\ w.use_hedge
    /\ w' = [w EXCEPT !.use_hedge = FALSE, !.hedge_portion_percent = 0,
                      !.hedge_start_date_input = NoDate, !.hedge_term_months = 0,
                      !.hedge_fixed_rate = 0]
    /\ run' = pre_submit(page, w', session)
    /\ UNCHANGED <<page, session, rates, files, client_df, uploads>>

\* the checkbox "Equally redistribute client volumes across all months for
\* Client Costs?" of new_business_qc_gas
ToggleRedistribute ==
    /\ page = "new_business_qc_gas"
    /\ form_drawn
    /\ w' = [w EXCEPT !.redistribute_option = ~w.redistribute_option]
    /\ run' = pre_submit(page, w', session)
    /\ UNCHANGED <<page, session, rates, files, client_df, uploads>>

\* the zone selectbox (streamlit_app, new_business_on_gas) and the Ontario gas
\* utility selectbox of current_client
SetZone ==
    /\ form_drawn
    /\ w.zone # "none"
    /\ w' = [w EXCEPT !.zone = IF w.zone = "EGD" THEN "Union South" ELSE "EGD"]
    /\ run' = pre_submit(page, w', session)
    /\ UNCHANGED <<page, session, rates, files, client_df, uploads>>

\* the Province and Commodity selectboxes of canadian_new_business
SetProvinceCommodity ==
    /\ page = "canadian_new_business"
    /\ \E prov \in {"Alberta", "Ontario"}, com \in {"gas", "electricity"} :
        /\ <<prov, com>> # <<w.province, w.commodity>>
        /\ w' = [w EXCEPT !.province = prov, !.commodity = com]
    /\ run' = pre_submit(page, w', session)
    /\ UNCHANGED <<page, session, rates, files, client_df, uploads>>

\* the client, province, commodity, mode and site selectboxes of the
\* multi-site pages: the choice is a row of the client file and a mode; the
\* widgets below them are drawn anew
SelectScope ==
    /\ page \in ClientPages
    /\ run.outcome \notin {"password", "missing_file", "missing_columns", "read_error"}
    /\ \E r \in DOMAIN client_df, mode \in {"Aggregate All Sites", "Site-by-Site"} :
        /\ <<r, mode>> # <<w.scope_row, w.analysis_mode>>
        /\ w' = Defaults(page, r, mode)
    /\ run' = pre_submit(page, w', session)
    /\ UNCHANGED <<page, session, rates, files, client_df, uploads>>

\* the Password text_input and its on_change callback password_entered
EnterPassword ==
    /\ page \in ClientPages
    /\ ~check_password(session)
    /\ \E text \in PasswordTexts :
        session' = password_entered(session, text, page)
    /\ run' = pre_submit(page, w, session')
    /\ UNCHANGED <<page, w, rates, files, client_df, uploads>>

\* Submit on each page: the script runs to its end.  The button is drawn only
\* by a run that got as far as the Submit check.
Submit_streamlit_app ==
    /\ page = "streamlit_app"
    /\ run.outcome = "idle"
    /\ run' = main_zone_page(csv_path_streamlit_app, w)
    /\ UNCHANGED <<page, w, session, rates, files, client_df, uploads>>

Submit_new_business_on_gas ==
    /\ page = "new_business_on_gas"
    /\ run.outcome = "idle"
    /\ run' = main_zone_page(csv_path_on_gas, w)
    /\ UNCHANGED <<page, w, session, rates, files, client_df, uploads>>

Submit_new_business_ab_gas ==
    /\ page = "new_business_ab_gas"
    /\ run.outcome = "idle"
    /\ run' = main_ab_gas(w)
    /\ UNCHANGED <<page, w, session, rates, files, client_df, uploads>>

Submit_new_business_qc_gas ==
    /\ page = "new_business_qc_gas"
    /\ run.outcome = "idle"
    /\ run' = main_qc_gas(w)
    /\ UNCHANGED <<page, w, session, rates, files, client_df, uploads>>

Submit_current_client ==
    /\ page = "current_client"
    /\ run.outcome = "idle"
    /\ run' = main_current_client(w)
    /\ UNCHANGED <<page, w, session, rates, files, client_df, uploads>>

\* The radios drawn below the Submit check (canadian_new_business, analysis)
\* may return either option: the model does not fix which one Streamlit
\* hands to the run.
Submit_canadian_new_business ==
    /\ page = "canadian_new_business"
    /\ run.outcome = "idle"
    /\ \E radio \in {"EGD", "Union South"} :
        /\ run' = main_canadian_new_business(w, radio)
        /\ session' = IF run'.outcome = "report"
                      THEN session_after_canadian(w, radio) ELSE session
    /\ UNCHANGED <<page, w, rates, files, client_df, uploads>>

Submit_analysis ==
    /\ page = "analysis"
    /\ run.outcome = "idle"
    /\ \E radio \in {"EGD", "Union South"} :
        run' = main_analysis(w, radio)
    /\ UNCHANGED <<page, w, session, rates, files, client_df, uploads>>

Submit ==
    \/ Submit_streamlit_app
    \/ Submit_new_business_on_gas
    \/ Submit_new_business_ab_gas
    \/ Submit_new_business_qc_gas
    \/ Submit_current_client
    \/ Submit_canadian_new_business
    \/ Submit_analysis

\* -------------------------------------------------------------------------
\* Data of the model runs

\* a rate file with unsorted dates, months with one and with two observations
TableMain ==
    <<Row(Date(2023, 4, 15), 4, 10), Row(Date(2023, 2, 10), 6, 9),
      Row(Date(2023, 3, 20), 6, 11), Row(Date(2023, 1, 9), 6, 9),
      Row(Date(2023, 3, 5), 4, 9), Row(Date(2023, 5, 1), 8, 9),
      Row(Date(2023, 6, 30), 4, 7)>>

ClientFileMain ==
    <<Site("Acme", "Site 001", "Alberta", "gas", IsoText(Date(2022, 11, 1)), 1, FlatProfile),
      Site("Acme", "Site 002", "Alberta", "gas", IsoText(Date(2022, 6, 15)), 2, ShapedProfile),
      Site("Acme", "Site 003", "Ontario", "gas", IsoText(Date(2023, 1, 1)), 1, FlatProfile),
      Site("Acme", "Site 004", "Alberta", "electricity", IsoText(Date(2023, 1, 1)), 1, FlatProfile),
      Site("Borealis", "Site 005", "Ontario", "electricity", IsoText(Date(2023, 1, 1)), 1,
           ShapedProfile),
      Site("Borealis", "Site 006", "Quebec", "gas", IsoText(Date(2023, 1, 1)), 0, FlatProfile),
      Site("Borealis", "Site 007", "Alberta", "gas", IsoText(Date(2023, 1, 1)), 1, ZeroProfile)>>

\* every file is there with its required columns; the client file is as
\* data_uploader writes it, with no "date" column
AllFilesOk == [absent |-> {}, bad_columns |-> {}, dated |-> {}]

\* the same with a "date" column in the client file analysis reads
DatedClientFile ==
    [absent |-> {}, bad_columns |-> {}, dated |-> {get_data_path(csv_path_client)}]

FreshSession ==
    [password_correct |-> "unset", password |-> "absent",
     local_utility_choice |-> "unset"]

InitWith(tables, clients, fileStates) ==
    /\ page = "streamlit_app"
    /\ rates \in tables
    /\ client_df \in clients
    /\ files \in fileStates
    /\ session = FreshSession
    /\ w = Defaults("streamlit_app", 1, "Aggregate All Sites")
    /\ run = Stopped("idle")
    /\ uploads = <<>>

NextWith(D) ==
    \/ Navigate(D)
    \/ SetConsumption(D)
    \/ SetAdminFee(D)
    \/ SetDateRange(D)
    \/ SetHedge(D)
    \/ ClearHedge
    \/ SetZone
    \/ SetProvinceCommodity
    \/ SelectScope
    \/ EnterPassword
    \/ Submit

\* the values the user enters in the runs that settle the cost claims
CostInputs ==
    [pages |-> Pages,
     profiles |-> {ZeroProfile, FlatProfile, ShapedProfile},
     fees |-> {0, 1},
     ranges |-> {<<Date(2023, 1, 9), Date(2023, 1, 31)>>,
                 <<Date(2023, 2, 1), Date(2023, 6, 30)>>},
     pcts |-> {0, 30, 100},
     hedge_starts |-> {Date(2023, 3, 1)},
     hedge_rates |-> {12}]

Init == InitWith({TableMain}, {ClientFileMain}, {AllFilesOk, DatedClientFile})

Next == NextWith(CostInputs)

Spec == Init /\ [][Next]_vars

\* -------------------------------------------------------------------------
\* Properties

Reported == run.outcome = "report"

ReportRows == DOMAIN run.monthly_rates

\* the consumption the report charges in its row i
RowUsage(i) == run.consumption[run.monthly_rates[i].year_month.m]

\* an amount of dollars (or of cents) in the unit of the costs of the model:
\* rates are held in halves, mean rates over RateDen
Money(x) == x * 2 * RateDen

HedgeFixedRate == w.hedge_fixed_rate * RateDen

\* the cost, before any conversion to dollars, of row i with a share pct of
\* the volume at the rate `hedged` and the rest at wholesale + fee
SplitCost(i, pct, hedged) ==
    ((RowUsage(i) * pct) \div 100) * hedged
    + (RowUsage(i) - ((RowUsage(i) * pct) \div 100))
      * (run.monthly_rates[i].wholesale_rate + run.admin_fee)

\* C1: in every calculator variant, the client cost of a month inside the
\* hedge window with a hedged portion of 100 % is consumption x fixed rate
\* (in the variant's unit), whatever the admin fee.
C1_FullHedgeIgnoresFee ==
    (Reported /\ w.hedge_portion_percent = 100) =>
        \A i \in ReportRows :
            run.hedged[i] =>
                \E d \in {1, 100} :
                    run.rep_client[i] * d = RowUsage(i) * HedgeFixedRate

\* C2: the client cost of a month inside the hedge window is the hedged
\* share of the volume at the fixed rate plus the rest at wholesale + fee.
C2_PartialHedgeBlend ==
    Reported =>
        \A i \in ReportRows :
            run.hedged[i] =>
                \E d \in {1, 100} :
                    run.rep_client[i] * d
                        = SplitCost(i, w.hedge_portion_percent, HedgeFixedRate)

\* the same window, written on month numbers: a hedge that starts on the
\* first of its month covers the `term` months from that month on
InWindowByMonths(month_dt) ==
    LET first == MonthIndex(w.hedge_start_date_input)
        this  == MonthIndex(month_dt)
    IN  IF w.hedge_start_date_input.d = 1
        THEN first <= this /\ this < first + w.hedge_term_months
        ELSE first < this /\ this <= first + w.hedge_term_months

\* C3: with the hedge enabled, a monthly row is treated as hedged if and only
\* if hedge_start <= month start < hedge_start + term months (half-open).
C3_HedgeWindowHalfOpen ==
    (Reported /\ w.use_hedge) =>
        \A i \in ReportRows :
            run.hedged[i] <=> InWindowByMonths(run.monthly_rates[i].year_month)

\* the example of C3: start 2023-03-01, term 3, rows February to June 2023
C3_Witness ==
    /\ Reported
    /\ w.use_hedge
    /\ w.hedge_start_date_input = Date(2023, 3, 1)
    /\ w.hedge_term_months = 3
    /\ [i \in ReportRows |-> run.monthly_rates[i].year_month.m] = <<2, 3, 4, 5, 6>>
    /\ run.hedged = <<FALSE, TRUE, TRUE, TRUE, FALSE>>

\* the unit a report is in: the d with reported utility cost * d = usage * rate
InUnit(d) ==
    \A i \in ReportRows :
        run.rep_utility[i] * d = RowUsage(i) * run.monthly_rates[i].utility_selected

\* C4: with the hedge disabled no month is treated as hedged and every client
\* cost is consumption x (wholesale + admin fee), in the unit of the report;
\* 1000 units at wholesale 3.00, utility 4.50, fee 0.50 for one January give
\* 4500, 3500 and a difference of +1000.
C4_UnhedgedCost ==
    (Reported /\ ~w.use_hedge) =>
        /\ \A i \in ReportRows : ~run.hedged[i]
        /\ \E d \in {1, 100} :
              /\ InUnit(d)
              /\ \A i \in ReportRows :
                    run.rep_client[i] * d
                        = RowUsage(i) * (run.monthly_rates[i].wholesale_rate + run.admin_fee)
        /\ ( /\ page = "new_business_ab_gas"
             /\ Len(run.monthly_rates) = 1
             /\ run.monthly_rates[1].year_month = Date(2023, 1, 1)
             /\ run.monthly_rates[1].wholesale_rate = 6 * RateDen
             /\ run.monthly_rates[1].utility_selected = 9 * RateDen
             /\ run.consumption[1] = 1000
             /\ run.admin_fee = 1 * RateDen )
           => /\ run.rep_utility = <<Money(4500)>>
              /\ run.rep_client = <<Money(3500)>>
              /\ run.total_utility = Money(4500)
              /\ run.total_client = Money(3500)
              /\ run.diff = Money(1000)
              /\ run.verdict = "saved"

\* the example of C4 on the Alberta gas page
C4_Witness ==
    /\ Reported
    /\ ~w.use_hedge
    /\ page = "new_business_ab_gas"
    /\ Len(run.monthly_rates) = 1
    /\ run.monthly_rates[1].year_month = Date(2023, 1, 1)
    /\ run.consumption[1] = 1000
    /\ run.admin_fee = 1 * RateDen
    /\ run.diff = Money(1000)

\* C5: one divisor (1 or 100) converts the utility cost, the hedged part and
\* the floating part of every row and both totals of a report.
C5_OneUnitPerReport ==
    Reported =>
        \E d \in {1, 100} :
            /\ InUnit(d)
            /\ \A i \in ReportRows :
                  \/ ~run.hedged[i]
                     /\ run.rep_client[i] * d = SplitCost(i, 0, 0)
                  \/ run.hedged[i]
                     /\ run.rep_client[i] * d
                            \in {SplitCost(i, w.hedge_portion_percent, HedgeFixedRate),
                                 SplitCost(i, w.hedge_portion_percent,
                                           HedgeFixedRate + run.admin_fee)}
            /\ run.total_utility = SumSeq(run.rep_utility)
            /\ run.total_client = SumSeq(run.rep_client)

\* a report in cents per unit with a hedged month and a non-zero volume
C5_Witness ==
    /\ Reported
    /\ page = "new_business_on_gas"
    /\ \E i \in ReportRows : run.hedged[i] /\ run.rep_client[i] > 0
    /\ run.total_utility > 0
    /\ ~InUnit(1)

\* the pages on which the user chooses the province and the commodity
MarketPages == {"current_client", "analysis", "canadian_new_business"}

\* the province and commodity the page is set to
SelectedPair ==
    IF page \in ClientPages
    THEN <<client_df[w.scope_row].province, client_df[w.scope_row].commodity>>
    ELSE <<w.province, w.commodity>>

\* the pairs with a rule for the unit of the rates, and the divisor of each
UnitPairs == {<<"Alberta", "gas">>, <<"Alberta", "electricity">>, <<"Ontario", "gas">>}

PolicyDivisor(pair) == IF pair = <<"Alberta", "gas">> THEN 1 ELSE 100

\* C6: on current_client, analysis and canadian_new_business alike the costs
\* are in dollars by a rule of (province, commodity) only: Ontario gas and
\* Alberta electricity rates are divided by 100, Alberta gas rates are not.
C6_UnitByProvinceCommodity ==
    (Reported /\ page \in MarketPages /\ SelectedPair \in UnitPairs) =>
        /\ InUnit(PolicyDivisor(SelectedPair))
        /\ \A i \in ReportRows :
              run.rep_client[i] * PolicyDivisor(SelectedPair)
                  = IF run.hedged[i]
                    THEN SplitCost(i, w.hedge_portion_percent, HedgeFixedRate)
                    ELSE SplitCost(i, 0, 0)

\* the pairs of the utility-rate policy table, and the column of each
PolicyPairs == UnitPairs \cup {<<"Quebec", "gas">>}

PolicyColumn(pair, zone) ==
    IF pair[1] = "Alberta" THEN "regulated_rate"
    ELSE IF pair = <<"Quebec", "gas">> THEN "utility_rate"
    ELSE IF zone = "EGD" THEN "local_utility_rate_egd"
    ELSE "local_utility_rate_usouth"

\* the observations of the rate file that row i of the report averages
RowObservations(i) ==
    SelectSeq(rates, LAMBDA r :
        /\ InWindow(r, w.start_date_input, w.end_date_input)
        /\ MonthStart(MonthIndex(r.date)) = run.monthly_rates[i].year_month)

\* C7: the utility rate of every row of a report is the mean of one column,
\* fixed by (province, commodity, zone): regulated_rate for Alberta, the EGD
\* or Union South column for Ontario gas by the zone, utility_rate for Quebec.
C7_UtilityColumnByPolicy ==
    (Reported /\ <<run.province, run.commodity>> \in PolicyPairs) =>
        LET col == PolicyColumn(<<run.province, run.commodity>>, run.local_utility_choice)
        IN  /\ run.utility_column = col
            /\ \A i \in ReportRows :
                  run.monthly_rates[i].utility_selected
                      = Mean(MapField(RowObservations(i), col))

\* an Ontario gas report on the Union South column
C7_Witness ==
    /\ Reported
    /\ page = "new_business_on_gas"
    /\ run.local_utility_choice = "Union South"
    /\ run.utility_column = "local_utility_rate_usouth"
    /\ Len(run.monthly_rates) = 5

\* C8: on every page where the pair can be chosen, a calculation for a pair
\* outside the policy table ends with the unsupported-combination error and
\* shows no cost figures.
C8_UnsupportedPairHalts ==
    (page \in MarketPages /\ SelectedPair \notin PolicyPairs
        /\ run.outcome \notin {"idle", "password"})
    => run.outcome = "unsupported"

\* C9: the zone column of an Ontario report is the one chosen in the zone
\* widget of that very calculation; none is assumed.
C9_ZoneExplicitlyChosen ==
    (Reported /\ run.province = "Ontario") =>
        /\ run.zone_input \in {"EGD", "Union South"}
        /\ run.local_utility_choice = run.zone_input
        /\ run.utility_column = zone_column(run.zone_input)

\* -------------------------------------------------------------------------
\* Monthly aggregation over arbitrary rate files

\* observations on the edges of months, twice within one month, and in the
\* same month of another year
AggRows ==
    {Row(Date(2023, 1, 31), 4, 9), Row(Date(2023, 2, 1), 6, 7),
     Row(Date(2023, 2, 15), 2, 11), Row(Date(2023, 3, 1), 8, 9),
     Row(Date(2024, 2, 10), 10, 13)}

\* the rate files of at most MaxRows rows, in any order, rows repeated or not
AggTables == UNION {[1..n -> AggRows] : n \in 1..MaxRows}

\* date ranges that cut months in part and that span a year
AggInputs ==
    [pages |-> {"current_client", "canadian_new_business", "new_business_on_gas",
                "new_business_ab_gas"},
     profiles |-> {FlatProfile, ShapedProfile},
     fees |-> {1},
     ranges |-> {<<Date(2023, 2, 1), Date(2023, 2, 28)>>,
                 <<Date(2023, 1, 31), Date(2023, 3, 1)>>,
                 <<Date(2023, 2, 10), Date(2024, 2, 10)>>},
     pcts |-> {100},
     hedge_starts |-> {Date(2023, 2, 1)},
     hedge_rates |-> {5}]

InitAgg == InitWith(AggTables, {ClientFileMain}, {AllFilesOk})

NextAgg ==
    \/ Navigate(AggInputs)
    \/ SetConsumption(AggInputs)
    \/ SetDateRange(AggInputs)
    \/ EnterPassword
    \/ Submit_current_client
    \/ Submit_canadian_new_business
    \/ Submit_new_business_on_gas
    \/ Submit_new_business_ab_gas

SpecAgg == InitAgg /\ [][NextAgg]_vars

\* the rows of the rate file, by position, dated within the range of the page
ObservedInRange ==
    {j \in DOMAIN rates :
        /\ DateKey(w.start_date_input) <= DateKey(rates[j].date)
        /\ DateKey(rates[j].date) <= DateKey(w.end_date_input)}

\* those of them in the calendar month ym = <<year, month>>
ObservedInMonth(ym) ==
    {j \in ObservedInRange : <<rates[j].date.y, rates[j].date.m>> = ym}

\* the sum of column col over the rows at the positions J
ColumnSum(J, col) ==
    SumSeq([j \in DOMAIN rates |-> IF j \in J THEN rates[j][col] ELSE 0])

\* C10: the monthly table has exactly one row for each calendar month with an
\* observation in the date range, each row holds the arithmetic means of
\* exactly those observations, and no other month has a row.
C10_MonthlyMeans ==
    Reported =>
        LET mr == run.monthly_rates
            ym(i) == <<mr[i].year_month.y, mr[i].year_month.m>>
        IN  /\ {ym(i) : i \in DOMAIN mr}
                  = {<<rates[j].date.y, rates[j].date.m>> : j \in ObservedInRange}
            /\ \A i, k \in DOMAIN mr : ym(i) = ym(k) => i = k
            /\ \A i \in DOMAIN mr :
                  LET J == ObservedInMonth(ym(i))
                  IN  /\ mr[i].year_month.d = 1
                      /\ mr[i].wholesale_rate * Cardinality(J)
                            = ColumnSum(J, "wholesale_rate") * RateDen
                      /\ mr[i].utility_selected * Cardinality(J)
                            = ColumnSum(J, run.utility_column) * RateDen

\* a file with two February observations and one of March 1st, of which the
\* range that ends on February 28th leaves one row
C10_Witness ==
    /\ Reported
    /\ Len(rates) = 3
    /\ Cardinality(ObservedInMonth(<<2023, 2>>)) = 2
    /\ Cardinality(ObservedInRange) = 2
    /\ Len(run.monthly_rates) = 1
    /\ run.monthly_rates[1].wholesale_rate = 4 * RateDen

\* -------------------------------------------------------------------------
\* Runs that end in an error

\* the files a page may find absent or without a required column
ErrPaths ==
    {csv_path_streamlit_app, csv_path_on_gas, csv_path_ab_gas, csv_path_qc_gas,
     csv_path_client, get_data_path(csv_path_client),
     get_rates_csv_current_client("Alberta", "gas"),
     data_dir_path(get_rates_csv("Alberta", "gas")),
     get_data_path(get_rates_csv("Alberta", "gas"))}

\* every file in order, or one of ErrPaths absent, or one lacking a column
ErrFileStates ==
    {AllFilesOk, DatedClientFile}
    \cup {[DatedClientFile EXCEPT !.absent = {path}] : path \in ErrPaths}
    \cup {[DatedClientFile EXCEPT !.bad_columns = {path}] : path \in ErrPaths}

\* date ranges: between two observations, end before start, one observation,
\* and a year the rate file does not reach
ErrInputs ==
    [pages |-> Pages,
     profiles |-> {FlatProfile},
     fees |-> {1},
     ranges |-> {<<Date(2023, 1, 10), Date(2023, 2, 9)>>,
                 <<Date(2023, 6, 30), Date(2023, 1, 9)>>,
                 <<Date(2023, 2, 10), Date(2023, 2, 10)>>,
                 <<Date(2024, 1, 1), Date(2024, 12, 31)>>},
     pcts |-> {100},
     hedge_starts |-> {Date(2023, 2, 10)},
     hedge_rates |-> {5}]

InitErr == InitWith({TableMain}, {ClientFileMain}, ErrFileStates)

NextErr ==
    \/ Navigate(ErrInputs)
    \/ SetConsumption(ErrInputs)
    \/ SetDateRange(ErrInputs)
    \/ SetProvinceCommodity
    \/ SelectScope
    \/ EnterPassword
    \/ Submit

SpecErr == InitErr /\ [][NextErr]_vars

\* the run on the screen is one that Submit started
Submitted == form_drawn /\ run.outcome # "idle"

\* no row of the rate file is dated within the range of the page
NoObservationInRange ==
    \A j \in DOMAIN rates :
        \/ DateKey(rates[j].date) < DateKey(w.start_date_input)
        \/ DateKey(rates[j].date) > DateKey(w.end_date_input)

\* the run shows no monthly table, no monthly cost, no total and no verdict
NothingReported ==
    /\ run.monthly_rates = <<>>
    /\ run.monthly_cost_utility = <<>> /\ run.monthly_cost_client = <<>>
    /\ run.rep_utility = <<>> /\ run.rep_client = <<>>
    /\ run.total_utility = 0 /\ run.total_client = 0 /\ run.diff = 0
    /\ run.verdict = "none"

\* C11: a calculation whose rate file is read and holds no observation dated
\* within [start, end] (start after end included) ends with the empty-range
\* outcome and reports nothing.
C11_EmptyRangeHalts ==
    (Submitted /\ NoObservationInRange
        /\ run.outcome \notin {"missing_file", "missing_columns", "unsupported"})
    => (run.outcome = "empty_range" /\ NothingReported)

\* C12: the rows of the monthly table are in strictly ascending month order,
\* each keyed by the first day of its month, whatever the order of the rows
\* of the rate file; the cost lists have one entry per row, and the entry at
\* a position is the cost of the month at that position of the table.
C12_SortedMonthKeys ==
    Reported =>
        LET mr == run.monthly_rates
        IN  /\ \A i, k \in DOMAIN mr :
                  i < k => DateKey(mr[i].year_month) < DateKey(mr[k].year_month)
            /\ \A i \in DOMAIN mr : mr[i].year_month.d = 1
            /\ DOMAIN run.monthly_cost_utility = DOMAIN mr
            /\ DOMAIN run.monthly_cost_client = DOMAIN mr
            /\ DOMAIN run.rep_utility = DOMAIN mr
            /\ DOMAIN run.rep_client = DOMAIN mr
            /\ \A i \in DOMAIN mr :
                  /\ run.monthly_cost_utility[i] \in
                        {RowUsage(i) * mr[i].utility_selected,
                         (RowUsage(i) * mr[i].utility_selected) \div 100}
                  /\ run.rep_utility[i] \in
                        {run.monthly_cost_utility[i], run.monthly_cost_utility[i] \div 100}

\* a rate file whose rows run backwards through three months with different
\* utility rates, all of them in the range
C12_Witness ==
    /\ Reported
    /\ Len(rates) = 3
    /\ \A j \in 1..2 : DateKey(rates[j + 1].date) < DateKey(rates[j].date)
    /\ Len(run.monthly_rates) = 3
    /\ run.monthly_rates[1].utility_selected # run.monthly_rates[2].utility_selected
    /\ run.rep_utility[1] # run.rep_utility[2]

\* C13: the utility total is the sum of the per-month utility costs, the
\* client total the sum of the per-month client costs, the difference is
\* utility minus client, and the message is 'saved' exactly when it is
\* positive, 'spent more' exactly when negative, 'no difference' exactly
\* when zero.
C13_TotalsDifferenceVerdict ==
    Reported =>
        /\ run.total_utility = SumSeq(run.rep_utility)
        /\ run.total_client = SumSeq(run.rep_client)
        /\ run.total_utility
              \in {SumSeq(run.monthly_cost_utility),
                   SumSeq(run.monthly_cost_utility) \div 100}
        /\ run.total_client
              \in {SumSeq(run.monthly_cost_client),
                   SumSeq(run.monthly_cost_client) \div 100}
        /\ run.diff = run.total_utility - run.total_client
        /\ (run.verdict = "saved") <=> (run.diff > 0)
        /\ (run.verdict = "spent more") <=> (run.diff < 0)
        /\ (run.verdict = "no difference") <=> (run.diff = 0)

\* a report of two months or more whose client total exceeds its utility total
C13_Witness ==
    /\ Reported
    /\ Len(run.rep_utility) >= 2
    /\ \A i \in ReportRows : run.rep_utility[i] > 0 /\ run.rep_client[i] > 0
    /\ run.rep_client[1] # run.rep_client[2]
    /\ run.diff < 0
    /\ run.verdict = "spent more"

ZeroConsumption == \A m \in 1..12 : run.consumption[m] = 0

\* C14: when the twelve consumption values are all 0, every per-month utility
\* cost and client cost and both totals are 0 and the message is 'no
\* difference', whatever the rates, the admin fee and the hedge.
C14_ZeroConsumptionZeroCost ==
    (Reported /\ ZeroConsumption) =>
        /\ \A i \in ReportRows :
              /\ run.monthly_cost_utility[i] = 0
              /\ run.monthly_cost_client[i] = 0
              /\ run.rep_utility[i] = 0
              /\ run.rep_client[i] = 0
        /\ run.total_utility = 0
        /\ run.total_client = 0
        /\ run.verdict = "no difference"

\* a report of current_client for a site with no consumption, with a
\* non-zero admin fee, non-zero rates and a hedged month at a non-zero rate
C14_Witness ==
    /\ Reported
    /\ page = "current_client"
    /\ ZeroConsumption
    /\ run.admin_fee > 0
    /\ \E i \in ReportRows : run.hedged[i]
    /\ w.hedge_portion_percent > 0
    /\ w.hedge_fixed_rate > 0
    /\ \A i \in ReportRows : run.monthly_rates[i].utility_selected > 0
    /\ run.verdict = "no difference"

\* the records of the client file with the chosen client, province and commodity
MatchingRecords ==
    {j \in DOMAIN client_df :
        /\ client_df[j].client_name = client_df[w.scope_row].client_name
        /\ client_df[j].province = client_df[w.scope_row].province
        /\ client_df[j].commodity = client_df[w.scope_row].commodity}

RECURSIVE SumOver(_, _)
SumOver(J, vals) ==
    IF J = {} THEN 0
    ELSE LET j == CHOOSE k \in J : TRUE IN vals[j] + SumOver(J \ {j}, vals)

AggregateReport ==
    Reported /\ page \in ClientPages /\ w.analysis_mode = "Aggregate All Sites"

\* C15: in aggregate mode the consumption of each month 1..12 is the sum of
\* that month's column over the records matching the chosen client, province
\* and commodity, and the admin fee is the arithmetic mean of their fees.
C15_AggregateSumAndMean ==
    AggregateReport =>
        /\ \A m \in 1..12 :
              run.consumption[m]
                  = SumOver(MatchingRecords,
                            [j \in DOMAIN client_df |-> client_df[j].consumption[m]])
        /\ run.admin_fee * Cardinality(MatchingRecords)
              = RateDen * SumOver(MatchingRecords,
                                  [j \in DOMAIN client_df |-> client_df[j].client_admin_fee])
        /\ \A i \in ReportRows :
              run.monthly_cost_utility[i]
                  \in {RowUsage(i) * run.monthly_rates[i].utility_selected,
                       (RowUsage(i) * run.monthly_rates[i].utility_selected) \div 100}

\* an aggregate report over two records with January 1000 and 2000 and fees
\* 0.50 and 1.00: January 3000 and fee 0.75
C15_Witness ==
    /\ AggregateReport
    /\ page = "current_client"
    /\ Cardinality(MatchingRecords) = 2
    /\ \E j, k \in MatchingRecords :
          /\ client_df[j].consumption[1] = 1000 /\ client_df[j].client_admin_fee = 1
          /\ client_df[k].consumption[1] = 2000 /\ client_df[k].client_admin_fee = 2
    /\ run.consumption[1] = 3000
    /\ 2 * run.admin_fee = 3 * RateDen
    /\ run.total_utility > 0

\* -------------------------------------------------------------------------
\* Client files of other shapes: the scope claims

\* data_uploader, a sheet for an account that already has a site_ID (row r),
\* appended to the file: the site_ID of the account, the contract start and
\* admin fee of the first row of the chosen client, the chosen province and
\* commodity, the twelve months of the sheet
append_upload(df, r, client, prov, com, cons) ==
    LET client_row == SelectSeq(df, LAMBDA s : s.client_name = client)[1]
    IN  Append(df, Site(client, df[r].site_ID, prov, com,
                        client_row.contract_start_date,
                        client_row.client_admin_fee, cons))

\* the file after the account of Site 004 was uploaded a second time
ClientFileReuploaded ==
    append_upload(ClientFileMain, 4, "Acme", "Alberta", "electricity", ShapedProfile)

\* the same records with the contract starts written as M/D/YYYY
ClientFileUS ==
    [i \in DOMAIN ClientFileMain |->
        [ClientFileMain[i] EXCEPT !.contract_start_date = UsText(to_datetime(@))]]

ScopeInputs ==
    [pages |-> ClientPages,
     profiles |-> {FlatProfile},
     fees |-> {1},
     ranges |-> {<<Date(2022, 8, 1), Date(2023, 1, 31)>>,
                 <<Date(2023, 1, 9), Date(2023, 2, 10)>>},
     pcts |-> {100},
     hedge_starts |-> {Date(2023, 1, 9)},
     hedge_rates |-> {12}]

InitScope ==
    InitWith({TableMain}, {ClientFileMain, ClientFileUS, ClientFileReuploaded},
             {AllFilesOk, DatedClientFile})

NextScope ==
    \/ Navigate(ScopeInputs)
    \/ SelectScope
    \/ EnterPassword
    \/ SetDateRange(ScopeInputs)
    \/ Submit_current_client
    \/ Submit_analysis

SpecScope == InitScope /\ [][NextScope]_vars

AggregateScope ==
    page \in ClientPages /\ form_drawn /\ w.analysis_mode = "Aggregate All Sites"

\* the dates the contract_start_date cells of the matching records stand for
MatchingStarts ==
    {to_datetime(client_df[j].contract_start_date) : j \in MatchingRecords}

\* C16: in aggregate mode the contract start used, which is the lower bound
\* of the Start Date widget, is the chronologically earliest
\* contract_start_date of the matching records.
C16_EarliestContractStart ==
    AggregateScope =>
        /\ contract_start_ts(page, w) \in MatchingStarts
        /\ \A d \in MatchingStarts : DateLE(contract_start_ts(page, w), d)
        /\ DateLE(contract_start_ts(page, w), w.start_date_input)

SingleSiteScope ==
    page \in ClientPages /\ form_drawn /\ w.analysis_mode = "Site-by-Site"

\* the matching records that carry the chosen site_ID
ChosenSiteRecords ==
    {j \in MatchingRecords : client_df[j].site_ID = client_df[w.scope_row].site_ID}

\* C17: in single-site mode exactly one record of the chosen client,
\* province and commodity carries the chosen site_ID, and the run works with
\* that record's own consumption, contract start and admin fee.
C17_SingleSiteOwnValues ==
    SingleSiteScope =>
        /\ Cardinality(ChosenSiteRecords) = 1
        /\ \A j \in ChosenSiteRecords :
              /\ contract_start_ts(page, w) = to_datetime(client_df[j].contract_start_date)
              /\ Reported =>
                    /\ run.consumption = client_df[j].consumption
                    /\ run.admin_fee = client_df[j].client_admin_fee * RateDen

\* the zone a first submission of a session works with: the zone widget of
\* the run and, where the run draws none, the default "EGD"
InputZone == IF run.zone_input = "none" THEN "EGD" ELSE run.zone_input

\* the monthly rates the inputs of the submission determine
InputMonthlyRates ==
    monthly_rates(df_filtered(rates, w.start_date_input, w.end_date_input),
                  PolicyColumn(<<run.province, run.commodity>>, InputZone))

ErrorOutcomes ==
    {"missing_file", "missing_columns", "read_error", "empty_range", "unsupported",
     "no_zone"}

\* the rate file the page reads for the selection it shows
PageRatePath ==
    IF page = "streamlit_app" THEN csv_path_streamlit_app
    ELSE IF page = "new_business_on_gas" THEN csv_path_on_gas
    ELSE IF page = "new_business_ab_gas" THEN csv_path_ab_gas
    ELSE IF page = "new_business_qc_gas" THEN csv_path_qc_gas
    ELSE IF page = "current_client"
    THEN get_rates_csv_current_client(SelectedPair[1], SelectedPair[2])
    ELSE IF page = "analysis"
    THEN get_data_path(get_rates_csv(SelectedPair[1], SelectedPair[2]))
    ELSE data_dir_path(get_rates_csv(SelectedPair[1], SelectedPair[2]))

\* the client file of the multi-site pages
PageClientPaths ==
    IF page = "current_client" THEN {csv_path_client}
    ELSE IF page = "analysis" THEN {get_data_path(csv_path_client)}
    ELSE {}

\* a file of the page is missing or lacks a required column
FileErrorCondition ==
    \E path \in {PageRatePath} \cup PageClientPaths :
        path \in files.absent \cup files.bad_columns

\* C19: a run that ends in an error outcome (a file missing or lacking
\* required columns, an empty date range, an unsupported combination, no
\* zone) shows no cost total and no per-month cost; a cost report is shown
\* only by a run that found its files, their columns and an observation in
\* the range.
C19_ErrorShowsNoCost ==
    /\ run.outcome \in ErrorOutcomes => NothingReported
    /\ Reported => /\ ~FileErrorCondition
                   /\ ~NoObservationInRange

\* a submitted run of current_client that stopped on a rates file lacking a
\* required column
C19_Witness ==
    /\ page = "current_client"
    /\ form_drawn
    /\ PageRatePath \in files.bad_columns
    /\ run.outcome = "missing_columns"
    /\ NothingReported

\* the hedge is ticked with a term of 0 months
ZeroTermHedge == w.use_hedge /\ w.hedge_term_months = 0

\* C20: with the hedge enabled and a term of 0 months the hedge window is
\* empty: no row is treated as hedged and every client cost is the fully
\* unhedged cost, whatever the hedge start, portion and fixed rate.
C20_ZeroTermEmptyWindow ==
    (Reported /\ ZeroTermHedge) =>
        /\ hedge_end_ts(w.hedge_start_date_input, w.hedge_term_months)
              = w.hedge_start_date_input
        /\ \A i \in ReportRows : ~run.hedged[i]
        /\ \E d \in {1, 100} :
              /\ InUnit(d)
              /\ \A i \in ReportRows : run.rep_client[i] * d = SplitCost(i, 0, 0)
              /\ run.total_client * d
                    = SumSeq([i \in ReportRows |-> SplitCost(i, 0, 0)])

\* a report of new_business_on_gas with the whole volume hedged for 0 months
\* from the first day of a month of the table
C20_Witness ==
    /\ Reported
    /\ page = "new_business_on_gas"
    /\ ZeroTermHedge
    /\ w.hedge_portion_percent = 100
    /\ w.hedge_fixed_rate > 0
    /\ \E i \in ReportRows :
          /\ run.monthly_rates[i].year_month = w.hedge_start_date_input
          /\ run.rep_client[i] > 0

\* C21: the consumption of a monthly row depends on the calendar month
\* number of the row only: each row is charged consumption[month number],
\* and two rows of the same month number in different years are charged the
\* same volume.
C21_ConsumptionByMonthNumber ==
    Reported =>
        LET mr == run.monthly_rates
            volume(i) == run.consumption[mr[i].year_month.m]
        IN  \A i, k \in DOMAIN mr :
                mr[i].year_month.m = mr[k].year_month.m
                => \/ /\ run.monthly_cost_utility[i] = volume(i) * mr[i].utility_selected
                      /\ run.monthly_cost_utility[k] = volume(i) * mr[k].utility_selected
                   \/ /\ run.monthly_cost_utility[i]
                            = (volume(i) * mr[i].utility_selected) \div 100
                      /\ run.monthly_cost_utility[k]
                            = (volume(i) * mr[k].utility_selected) \div 100

\* a report with February 2023 and February 2024, for a consumption that
\* differs from month to month
C21_Witness ==
    /\ Reported
    /\ page \in {"new_business_ab_gas", "current_client"}
    /\ \E i, k \in ReportRows :
          /\ run.monthly_rates[i].year_month = Date(2023, 2, 1)
          /\ run.monthly_rates[k].year_month = Date(2024, 2, 1)
          /\ run.monthly_cost_utility[i] > 0
          /\ run.monthly_rates[i].utility_selected # run.monthly_rates[k].utility_selected
    /\ run.consumption[1] # run.consumption[2]
    /\ run.consumption[2] # run.consumption[3]

\* C22: the consumption mapping has exactly the keys 1..12, in the widgets
\* and in the run, and the month number of every monthly row is one of
\* them, so that the lookup of the cost loop finds a value for every row.
C22_TwelveConsumptionKeys ==
    /\ DOMAIN w.consumption = 1..12
    /\ Reported =>
          /\ DOMAIN run.consumption = 1..12
          /\ \A i \in ReportRows :
                /\ run.monthly_rates[i].year_month.m \in DOMAIN run.consumption
                /\ run.monthly_cost_utility[i]
                      \in {RowUsage(i) * run.monthly_rates[i].utility_selected,
                           (RowUsage(i) * run.monthly_rates[i].utility_selected) \div 100}

\* an aggregate report of current_client over five months
C22_Witness ==
    /\ AggregateReport
    /\ page = "current_client"
    /\ DOMAIN run.consumption = 1..12
    /\ {run.monthly_rates[i].year_month.m : i \in ReportRows} = 2..6
    /\ \A i \in ReportRows : run.monthly_cost_utility[i] > 0

\* -------------------------------------------------------------------------
\* The Quebec gas page

QcInputs ==
    [pages |-> {"new_business_qc_gas"},
     profiles |-> {ZeroProfile, FlatProfile, ShapedProfile},
     fees |-> {0, 1},
     ranges |-> {<<Date(2023, 1, 9), Date(2023, 1, 31)>>,
                 <<Date(2023, 1, 10), Date(2023, 2, 9)>>,
                 <<Date(2023, 2, 1), Date(2023, 6, 30)>>},
     pcts |-> {30, 100},
     hedge_starts |-> {Date(2023, 3, 1)},
     hedge_rates |-> {12}]

InitQc == InitWith({TableMain}, {ClientFileMain}, {AllFilesOk})

NextQc ==
    \/ Navigate(QcInputs)
    \/ SetConsumption(QcInputs)
    \/ SetAdminFee(QcInputs)
    \/ SetDateRange(QcInputs)
    \/ SetHedge(QcInputs)
    \/ ClearHedge
    \/ ToggleRedistribute
    \/ Submit_new_business_qc_gas

SpecQc == InitQc /\ [][NextQc]_vars

\* a run of the Quebec page after Submit whose rates file is readable, has
\* the required columns and holds an observation in the date range
QcRunWithData ==
    /\ page = "new_business_qc_gas"
    /\ Submitted
    /\ csv_path_qc_gas \notin files.absent \cup files.bad_columns
    /\ ~NoObservationInRange

\* C24: on the Quebec page a run after Submit with a readable rates file
\* that has the required columns and a row in the date range passes the
\* column validation and reaches the cost report.
C24_QcReachesReport ==
    QcRunWithData =>
        /\ Reported
        /\ run.utility_column = "utility_rate"
        /\ Len(run.monthly_rates) > 0

\* the volume of every month after the redistribution
EqualVolume == SumSeq(w.consumption) \div 12

\* C23: on the Quebec page with the redistribution ticked and a non-zero
\* total, every row of the redistributed report charges the client for
\* sum(consumption)/12 with the hedge window and fee rules of the normal
\* client cost, and the utility cost shown against it is the one of the
\* original monthly consumption.
C23_RedistributedVolume ==
    (QcRunWithData /\ w.redistribute_option /\ SumSeq(w.consumption) # 0) =>
        /\ Reported
        /\ run.redistribution = "shown"
        /\ DOMAIN run.redistributed_cost_client = ReportRows
        /\ \A i \in ReportRows :
              /\ run.redistributed_cost_client[i] * 100
                    = IF run.hedged[i]
                      THEN ((EqualVolume * w.hedge_portion_percent) \div 100)
                               * HedgeFixedRate
                           + (EqualVolume
                                - ((EqualVolume * w.hedge_portion_percent) \div 100))
                               * (run.monthly_rates[i].wholesale_rate + run.admin_fee)
                      ELSE EqualVolume
                               * (run.monthly_rates[i].wholesale_rate + run.admin_fee)
              /\ run.rep_utility[i] * 100
                    = RowUsage(i) * run.monthly_rates[i].utility_selected
        /\ run.redistributed_total_client = SumSeq(run.redistributed_cost_client)
        /\ run.total_utility = SumSeq(run.rep_utility)

\* C25: on the Quebec page with the redistribution ticked and a total
\* consumption of 0, the run warns that the redistribution cannot be done,
\* shows the normal cost report, shows no redistributed report and no
\* redistributed breakdown, and ends without error.
C25_ZeroTotalSkipsRedistribution ==
    (QcRunWithData /\ w.redistribute_option /\ SumSeq(w.consumption) = 0) =>
        /\ Reported
        /\ run.redistribution = "warned"
        /\ run.redistributed_cost_client = <<>>
        /\ run.redistributed_total_client = 0
        /\ DOMAIN run.rep_utility = ReportRows
        /\ run.verdict = "no difference"

\* -------------------------------------------------------------------------
\* Hedge starts inside a month

HedgeInputs ==
    [pages |-> {"canadian_new_business", "new_business_ab_gas"},
     profiles |-> {FlatProfile},
     fees |-> {1},
     ranges |-> {<<Date(2023, 2, 1), Date(2023, 6, 30)>>},
     pcts |-> {100},
     hedge_starts |-> {Date(2023, 1, 31), Date(2023, 3, 1), Date(2023, 3, 15)},
     hedge_rates |-> {12}]

InitHedge == InitWith({TableMain}, {ClientFileMain}, {AllFilesOk})

NextHedge ==
    \/ Navigate(HedgeInputs)
    \/ SetConsumption(HedgeInputs)
    \/ SetDateRange(HedgeInputs)
    \/ SetHedge(HedgeInputs)
    \/ Submit_canadian_new_business
    \/ Submit_new_business_ab_gas

SpecHedge == InitHedge /\ [][NextHedge]_vars

\* the rows of the report that are treated as hedged
HedgedRows == {i \in ReportRows : run.hedged[i]}

\* the row of the calendar month that holds the date dt, if the report has one
RowsOfMonth(dt) ==
    {i \in ReportRows : run.monthly_rates[i].year_month = MonthStart(MonthIndex(dt))}

\* a report with the hedge on whose rows cover every month from the hedge
\* start to the hedge end
HedgeReportCovered ==
    /\ Reported
    /\ w.use_hedge
    /\ \A k \in MonthIndex(w.hedge_start_date_input)
                ..(MonthIndex(w.hedge_start_date_input) + w.hedge_term_months) :
          \E i \in ReportRows : run.monthly_rates[i].year_month = MonthStart(k)

HedgeEndDate == hedge_end_ts(w.hedge_start_date_input, w.hedge_term_months)

\* C26 as stated: for any hedge start and any term N >= 0 exactly N months
\* have their first day in the window, and when the hedge starts after the
\* first day of its month the month of the hedge start is not hedged and the
\* month of the hedge end is hedged.
C26_AsStated ==
    HedgeReportCovered =>
        /\ Cardinality(HedgedRows) = w.hedge_term_months
        /\ w.hedge_start_date_input.d > 1 =>
              /\ \A i \in RowsOfMonth(w.hedge_start_date_input) : ~run.hedged[i]
              /\ \A i \in RowsOfMonth(HedgeEndDate) : run.hedged[i]

\* C26 amended: the same, the month of the hedge end being hedged for the
\* terms N >= 1 only; with N = 0 the hedge end is the hedge start and no
\* month is hedged.
C26_MidMonthHedgeStart ==
    HedgeReportCovered =>
        /\ Cardinality(HedgedRows) = w.hedge_term_months
        /\ w.hedge_start_date_input.d > 1 =>
              /\ \A i \in RowsOfMonth(w.hedge_start_date_input) : ~run.hedged[i]
              /\ w.hedge_term_months >= 1 =>
                    \A i \in RowsOfMonth(HedgeEndDate) : run.hedged[i]
              /\ w.hedge_term_months = 0 => HedgedRows = {}

\* a report of canadian_new_business with the hedge from 2023-03-15 for two
\* months: April and May are hedged, March is not
C26_Witness ==
    /\ HedgeReportCovered
    /\ page = "canadian_new_business"
    /\ w.hedge_start_date_input = Date(2023, 3, 15)
    /\ w.hedge_term_months = 2
    /\ HedgeEndDate = Date(2023, 5, 15)
    /\ [i \in ReportRows |-> run.monthly_rates[i].year_month.m] = <<1, 2, 3, 4, 5, 6>>
    /\ run.hedged = <<FALSE, FALSE, FALSE, TRUE, TRUE, FALSE>>

\* -------------------------------------------------------------------------
\* Months the date range covers in part

\* the date range starts or ends inside the calendar month of the row i
PartMonth(i) ==
    LET ym == run.monthly_rates[i].year_month
    IN  \/ /\ MonthIndex(w.start_date_input) = MonthIndex(ym)
           /\ w.start_date_input.d > 1
        \/ /\ MonthIndex(w.end_date_input) = MonthIndex(ym)
           /\ w.end_date_input.d < DaysInMonth(ym.y, ym.m)

\* C27: in new_business_ab_gas a month the date range covers only in part
\* has one cost row, the row charges the whole monthly consumption of its
\* month number (no share by days), and its rates are the means of the
\* observations of that month inside the range only.
C27_PartMonthFullConsumption ==
    (Reported /\ page = "new_business_ab_gas") =>
        \A i \in ReportRows :
            PartMonth(i) =>
                LET mr  == run.monthly_rates
                    J   == ObservedInMonth(<<mr[i].year_month.y, mr[i].year_month.m>>)
                    n   == Cardinality(J)
                    use == w.consumption[mr[i].year_month.m]
                IN  /\ n > 0
                    /\ \A k \in ReportRows :
                          mr[k].year_month = mr[i].year_month => k = i
                    /\ run.monthly_cost_utility[i] * n
                          = use * ColumnSum(J, "regulated_rate") * RateDen
                    /\ ~run.hedged[i] =>
                          run.monthly_cost_client[i] * n
                             = use * (ColumnSum(J, "wholesale_rate") * RateDen
                                        + n * w.admin_fee * RateDen)

\* a file with observations of February 1st and 15th, 2023, and of February
\* 10th, 2024: the range 2023-02-10..2024-02-10 leaves one observation in
\* each February, starts inside the first and ends inside the second, and
\* each row charges the whole February consumption at that one observation
C27_Witness ==
    /\ Reported
    /\ page = "new_business_ab_gas"
    /\ w.start_date_input = Date(2023, 2, 10)
    /\ w.end_date_input = Date(2024, 2, 10)
    /\ \E j \in DOMAIN rates : rates[j].date = Date(2023, 2, 1)
    /\ Len(run.monthly_rates) = 2
    /\ PartMonth(1) /\ PartMonth(2)
    /\ w.consumption[2] > 0
    /\ run.monthly_cost_utility[1] = w.consumption[2] * 11 * RateDen
    /\ run.monthly_cost_utility[2] = w.consumption[2] * 13 * RateDen

\* -------------------------------------------------------------------------
\* The password gate of the client pages

GateInputs ==
    [pages |-> {"current_client", "analysis", "new_business_ab_gas"},
     profiles |-> {FlatProfile},
     fees |-> {1},
     ranges |-> {<<Date(2023, 2, 1), Date(2023, 6, 30)>>},
     pcts |-> {100},
     hedge_starts |-> {Date(2023, 3, 1)},
     hedge_rates |-> {12}]

InitGate == InitWith({TableMain}, {ClientFileMain}, {AllFilesOk, DatedClientFile})

NextGate ==
    \/ Navigate(GateInputs)
    \/ EnterPassword
    \/ SelectScope
    \/ SetDateRange(GateInputs)
    \/ SetHedge(GateInputs)
    \/ Submit_current_client
    \/ Submit_analysis
    \/ Submit_new_business_ab_gas

SpecGate == InitGate /\ [][NextGate]_vars

\* the step is the callback password_entered of the page, run on a text
\* that equals the secret of the page
MatchingPasswordEntered ==
    /\ page \in ClientPages
    /\ page' = page
    /\ \E text \in PasswordTexts :
          /\ text = secret_of_page(page)
          /\ session' = password_entered(session, text, page)

\* the run of a client page went past check_password
PastPasswordGate == page \in ClientPages /\ run.outcome # "password"

\* C28: a run of a client page reads the client file and calculates only
\* with password_correct = True; the flag becomes True only by the callback
\* password_entered on a text equal to the secret; once True it stays True,
\* and the text is no longer in the session state.
C28_PasswordGate ==
    /\ [](PastPasswordGate => session.password_correct = "True")
    /\ [](session.password_correct = "True" => session.password = "absent")
    /\ [][session.password_correct = "True"
             => session'.password_correct = "True"]_vars
    /\ [][(session.password_correct # "True" /\ session'.password_correct = "True")
             => MatchingPasswordEntered]_vars

\* a report of current_client with the flag set and the text gone from the
\* session state
C28_Witness ==
    /\ page = "current_client"
    /\ Reported
    /\ session.password_correct = "True"
    /\ session.password = "absent"
    /\ run.total_client > 0

\* -------------------------------------------------------------------------
\* data_uploader: the site IDs of uploaded accounts
\*
\* The file client_data_by_site.csv is text: client_df holds, for each row,
\* the texts of the columns account_number and site_ID and the client name.
\* pd.read_csv turns a column whose texts are all numerals into integers and
\* leaves any other column as strings; pd.read_excel gives a number for a
\* numeric cell and a string for a text cell; to_csv writes either as text.

\* the rows the file may reach before another upload is taken
MaxFileRows == 5

RECURSIVE DecText(_)
\* str(n) of a natural number
DecText(n) == IF n < 10 THEN <<Digit(n)>> ELSE DecText(n \div 10) \o <<Digit(n % 10)>>

\* an account number held as a Python int, and one held as a str
IntCell(n) == [kind |-> "int", text |-> DecText(n)]

StrCell(t) == [kind |-> "str", text |-> t]

IsNumeral(t) == t # <<>> /\ \A i \in DOMAIN t : IsDigit(t[i])

\* "Site "
SiteWord == <<83, 105, 116, 101, 32>>

\* f"Site {max_used_site_number:03d}"
new_sID(n) ==
    SiteWord \o (IF n < 10 THEN <<48, 48>> ELSE IF n < 100 THEN <<48>> ELSE <<>>)
             \o DecText(n)

\* re.search(r"Site\s+(\d+)", str(sID)) and int(match.group(1)); 0 stands
\* for no match, which leaves max_used_site_number as it is
site_number(sID) ==
    IF /\ Len(sID) > Len(SiteWord)
       /\ SubSeq(sID, 1, Len(SiteWord)) = SiteWord
       /\ IsDigit(sID[Len(SiteWord) + 1])
    THEN NumberOf(Fields(SubSeq(sID, Len(SiteWord) + 1, Len(sID)))[1])
    ELSE 0

FileRow(acc, sid, client) ==
    [account_number |-> acc, site_ID |-> sid, client_name |-> client]

\* pd.read_csv(client_csv_path): the column account_number is int64 when
\* every text of it is a numeral, object (str) otherwise
read_csv(rows) ==
    LET numeric == \A i \in DOMAIN rows : IsNumeral(rows[i].account_number)
    IN  [i \in DOMAIN rows |->
            [rows[i] EXCEPT !.account_number =
                IF numeric THEN IntCell(NumberOf(@)) ELSE StrCell(@)]]

\* combined_df.to_csv(client_csv_path, index=False)
to_csv(df) == [i \in DOMAIN df |-> [df[i] EXCEPT !.account_number = @.text]]

\* site_mapping[row["account_number"]] = row["site_ID"], row after row: the
\* last row of an account decides
site_mapping(df) ==
    [acc \in {df[i].account_number : i \in DOMAIN df} |->
        LET at == {i \in DOMAIN df : df[i].account_number = acc}
        IN  df[CHOOSE i \in at : \A k \in at : k <= i].site_ID]

\* the highest number among site_mapping.values(), 0 when there is none
max_used_site_number(mapping) ==
    LET nums == {site_number(mapping[acc]) : acc \in DOMAIN mapping} \cup {0}
    IN  CHOOSE n \in nums : \A k \in nums : k <= n

RECURSIVE new_site_IDs(_, _, _)
\* the loop "for acc in df_pivoted["account_number"]"
new_site_IDs(accs, mapping, max_used) ==
    IF accs = <<>> THEN <<>>
    ELSE IF Head(accs) \in DOMAIN mapping
    THEN <<mapping[Head(accs)]>> \o new_site_IDs(Tail(accs), mapping, max_used)
    ELSE <<new_sID(max_used + 1)>>
         \o new_site_IDs(Tail(accs),
                         (Head(accs) :> new_sID(max_used + 1)) @@ mapping,
                         max_used + 1)

\* df_final of a run that finds the rows `rows` in the file and is given the
\* sheet `accs` of account numbers
df_final(rows, accs) ==
    LET existing_clients_df == read_csv(rows)
        mapping == site_mapping(existing_clients_df)
        ids     == new_site_IDs(accs, mapping, max_used_site_number(mapping))
    IN  [i \in DOMAIN accs |->
            FileRow(accs[i], ids[i], existing_clients_df[1].client_name)]

\* no run of the script under way
NoUpload == [pc |-> "idle", df_final |-> <<>>, existing_data |-> <<>>]

\* the run started by the Append button, lines 18-165: the file is read, the
\* sheet pivoted and the site IDs assigned
ReadAndAssign(sheets) ==
    /\ \E s \in DOMAIN uploads, accs \in sheets :
        /\ uploads[s].pc = "idle"
        /\ Len(client_df) + Len(accs) <= MaxFileRows
        /\ uploads' = [uploads EXCEPT ![s] =
                          [pc |-> "processed", df_final |-> df_final(client_df, accs),
                           existing_data |-> <<>>]]
    /\ UNCHANGED <<page, w, session, rates, files, client_df, run>>

\* line 172: existing_data = pd.read_csv(client_csv_path)
Reload ==
    /\ \E s \in DOMAIN uploads :
        /\ uploads[s].pc = "processed"
        /\ uploads' = [uploads EXCEPT ![s].pc = "reloaded",
                                      ![s].existing_data = read_csv(client_df)]
    /\ UNCHANGED <<page, w, session, rates, files, client_df, run>>

\* lines 176-189: pd.concat([existing_data, df_final]) and to_csv
AppendToCsv ==
    /\ \E s \in DOMAIN uploads :
        /\ uploads[s].pc = "reloaded"
        /\ client_df' = to_csv(uploads[s].existing_data \o uploads[s].df_final)
        /\ uploads' = [uploads EXCEPT ![s] = NoUpload]
    /\ UNCHANGED <<page, w, session, rates, files, run>>

\* the file before the uploads: one account of the client, with its site ID
UploadFileMain == <<FileRow(DecText(500), new_sID(1), "Acme")>>

\* the sheets uploaded: an account number kept as text with leading zeros,
\* numeric account numbers, one of them already in the file
UploadSheets ==
    {<<StrCell(<<48, 48>> \o DecText(123))>>, <<IntCell(500), IntCell(777)>>,
     <<IntCell(640)>>}

\* sheets of numeric cells only
NumericSheets == {<<IntCell(500), IntCell(777)>>, <<IntCell(640)>>, <<IntCell(123)>>}

InitUploads(sessions, file) ==
    /\ page = "data_uploader"
    /\ rates = <<>>
    /\ client_df = file
    /\ files = AllFilesOk
    /\ session = FreshSession
    /\ w = Defaults("streamlit_app", 1, "Aggregate All Sites")
    /\ run = Stopped("idle")
    /\ uploads = [s \in sessions |-> NoUpload]

\* one session: the uploads take place one at a time
InitUploadOne == InitUploads({1}, UploadFileMain)

NextUploadOne ==
    \/ ReadAndAssign(UploadSheets)
    \/ Reload
    \/ AppendToCsv

SpecUploadOne == InitUploadOne /\ [][NextUploadOne]_vars

\* two sessions, their reads and writes of the file in any order
InitUploadTwo == InitUploads({1, 2}, UploadFileMain)

NextUploadTwo ==
    \/ ReadAndAssign(NumericSheets)
    \/ Reload
    \/ AppendToCsv

SpecUploadTwo == InitUploadTwo /\ [][NextUploadTwo]_vars

\* the account number of row i of the file as pd.read_csv gives it
AccountRead(rows, i) == read_csv(rows)[i].account_number

\* rows of the file with the same account number text carry one site ID
KeepsSiteID ==
    \A i, j \in DOMAIN client_df :
        client_df[i].account_number = client_df[j].account_number
        => client_df[i].site_ID = client_df[j].site_ID

\* rows of the file with different account numbers carry different site IDs
NoSharedSiteID ==
    \A i, j \in DOMAIN client_df :
        AccountRead(client_df, i) # AccountRead(client_df, j)
        => client_df[i].site_ID # client_df[j].site_ID

\* the rows a step adds for account numbers the file did not hold carry a
\* "Site NNN" whose number is above every number of the file before the step
NewAccountsNumberedAbove ==
    \A j \in (Len(client_df) + 1)..Len(client_df') :
        (\A i \in DOMAIN client_df :
            AccountRead(client_df', j) # AccountRead(client_df, i))
        => /\ client_df'[j].site_ID = new_sID(site_number(client_df'[j].site_ID))
           /\ \A i \in DOMAIN client_df :
                 site_number(client_df[i].site_ID) < site_number(client_df'[j].site_ID)

\* C29: after any sequence of uploads appended one at a time, an account
\* number that has a site ID keeps it for its new rows, every new account
\* number gets a "Site NNN" numbered above every number used in the file,
\* and no two different account numbers share a site ID.
C29_SiteIdsOneAtATime ==
    /\ [](KeepsSiteID /\ NoSharedSiteID)
    /\ [][NewAccountsNumberedAbove]_vars

\* a step leaves every row of the file in place and adds rows after them
RowsKept ==
    /\ Len(client_df') >= Len(client_df)
    /\ SubSeq(client_df', 1, Len(client_df)) = client_df

\* C30: with the steps of two sessions interleaved the file ends with the
\* rows appended by both sessions (no write drops a row another run
\* appended) and no site ID is given to two different account numbers.
C30_InterleavedAppends ==
    /\ []NoSharedSiteID
    /\ [][RowsKept]_vars

====
